---- MODULE Spec2Model ----
(***************************************************************************)
(* State-machine model of IceComponent::Private (the per-component ICE     *)
(* candidate engine) together with the observable surface of the           *)
(* IceLocalTransport / IceTurnTransport children it drives.                *)
(*                                                                         *)
(* Every signal handler of the engine is one action: the environment part  *)
(* of the action is the state change inside the child transport that makes *)
(* it emit the signal, the rest is the handler's code run to completion.   *)
(* Emitted events (candidateAdded, candidateRemoved, localFinished,        *)
(* gatheringComplete, stopped) are appended to the history variable trace. *)
(***************************************************************************)
EXTENDS Integers, Sequences, FiniteSets, TLC

(***************************************************************************)
(* Bounds of the model                                                     *)
(***************************************************************************)
\* number of calls of the public API (setters, update, stop,
\* addLocalPeerReflexiveCandidate) explored in one behaviour
MaxCalls == 4

\* number of calls explored in one behaviour of the configuration alone
MaxCfgCalls == 5

(***************************************************************************)
(* Transport addresses                                                     *)
(***************************************************************************)
\* TransportAddress(): null QHostAddress, port -1
NullAddr == [ip |-> "", port |-> -1, scope |-> ""]

TA(ip, port) == [ip |-> ip, port |-> port, scope |-> ""]

\* TransportAddress::isValid
isValid(a) == a.ip # ""

\* TransportAddress::operator== : QHostAddress equality (which does not look at
\* the scope id) and equal ports
AddrEq(a, b) == a.ip = b.ip /\ a.port = b.port

\* QHostAddress::setScopeId(QString())
stripScope(a) == [a EXCEPT !.scope = ""]

IPv6Addrs == {"fe80::1"}

isIPv6(ip) == ip \in IPv6Addrs

(***************************************************************************)
(* Inputs of the environment, drawn from small sets                        *)
(***************************************************************************)
LA_A == [addr |-> "192.168.1.5", network |-> 1, isVpn |-> FALSE]
LA_V == [addr |-> "10.8.0.2", network |-> 2, isVpn |-> TRUE]
LA_6 == [addr |-> "fe80::1", network |-> 3, isVpn |-> FALSE]

\* arguments of setLocalAddresses
LocalAddrLists == { <<LA_A>>, <<LA_A, LA_V>>, <<LA_6, LA_6>> }

LocalIPs == {"192.168.1.5", "10.8.0.2", "fe80::1"}

\* arguments of setExternalAddresses
ExtAddrLists == { << [base |-> "192.168.1.5", addr |-> "198.51.100.7", portBase |-> -1],
                     [base |-> "fe80::1", addr |-> "2001:db8::7", portBase |-> -1] >> }

StunBindAddrs == { TA("74.125.1.1", 3478) }
StunRelayAddrs == { TA("74.125.1.2", 3478) }
RelayUsers == { "user" }

\* socket lists handed to update: the local IPs for which the port reserver
\* lent a pre-bound socket ({} stands for a null or empty list)
SocketLists == { {}, {"192.168.1.5"} }

\* sets of local IPs on which bind(addr, 0) fails
BindFailures == { {}, {"10.8.0.2"}, {"fe80::1"} }

\* port of a socket lent by the port reserver / of a socket bound to port 0
localPort(borrowed) == IF borrowed THEN 4000 ELSE 5000

\* what a STUN server can report for a transport: a NAT mapping, or the local
\* address itself when there is no NAT
MappedAddrs(local) == { TA("203.0.113.9", 40001), local }

RelayedUdp == TA("198.51.100.50", 50000)
RelayedTcp == TA("198.51.100.50", 50001)
MappedTcp == TA("203.0.113.9", 40002)

\* peer-reflexive addresses reported by the connectivity checks of Ice176
PeerAddrs == { [ip |-> "203.0.113.77", port |-> 6000, scope |-> ""],
               [ip |-> "fe80::77", port |-> 6000, scope |-> "eth0"] }

\* remote addresses Ice176 asks a TURN channel for
ChannelPeerAddrs == { TA("203.0.113.80", 7000) }

\* constructor argument of IceComponent
ComponentIds == {1}

(***************************************************************************)
(* Priorities                                                              *)
(***************************************************************************)
\* mutant: the local preference shifted into the wrong bits
calc_priority_shift16(typePref, localPref, componentId) ==
    16777216 * typePref + 65536 * (localPref % 256) + (256 - componentId)

calc_priority(typePref, localPref, componentId) ==
    16777216 * typePref + 256 * localPref + (256 - componentId)

\* the three Q_ASSERTs of calc_priority
calc_priority_asserts(typePref, localPref, componentId) ==
    /\ typePref >= 0 /\ typePref <= 126
    /\ localPref >= 0 /\ localPref <= 65535
    /\ componentId >= 1 /\ componentId <= 256

choose_default_priority(type, localPref, isVpn, componentId) ==
    LET typePref == IF type = "host" THEN (IF isVpn THEN 0 ELSE 126)
                    ELSE IF type = "prflx" THEN 110
                    ELSE IF type = "srflx" THEN 100
                    ELSE 0
    IN calc_priority(typePref, localPref, componentId)

(***************************************************************************)
(* State                                                                   *)
(***************************************************************************)
VARIABLES
    id,                \* IceComponent id
    pending,           \* Config pending
    config,            \* Config config
    useLocal, useStunBind, useStunRelayUdp, useStunRelayTcp,
    stopping,
    udpTransports,     \* QList<LocalTransport *>, with the state of each IceLocalTransport
    tcpTurn,           \* QSharedPointer<IceTurnTransport>
    localCandidates,   \* QList<Candidate>
    localFinished,
    gatheringComplete,
    deferred,          \* calls queued with sess.defer, in order
    doExtTimer,        \* pending QTimer::singleShot(0, ...) lambdas of update
    borrowedSocks,     \* local IPs whose socket update took from the socket list
    ownSocks,          \* local IPs whose socket the engine created itself (children of Private)
    returnedSocks,     \* local IP -> number of times its socket went to portReserver->returnSockets
    freedSocks,        \* local IPs whose socket was deleted by the engine
    life,              \* "alive", "destroyed" (~Private ran) or "aborted" (a Q_ASSERT failed)
    calls,             \* number of API calls made
    trace,             \* history: events emitted by the engine, and stop() calls
    channelPeers,      \* QHash<int, QSet<TransportAddress>>: set of [id, peers], one per key
    hist,              \* history: what update and the children were asked to do
    p_in, p_out        \* inputs and result of the priority functions (PrioSpec)

engineVars == <<id, pending, config, useLocal, useStunBind, useStunRelayUdp, useStunRelayTcp,
                stopping, udpTransports, tcpTurn, localCandidates, localFinished,
                gatheringComplete, deferred, doExtTimer, borrowedSocks, ownSocks,
                returnedSocks, freedSocks, life, calls, trace, channelPeers, hist>>

prioVars == <<p_in, p_out>>

vars == <<engineVars, prioVars>>

EmptyConfig == [localAddrs |-> <<>>, extAddrs |-> <<>>,
                stunBindAddr |-> NullAddr,
                stunRelayUdpAddr |-> NullAddr, stunRelayUdpUser |-> "",
                stunRelayTcpAddr |-> NullAddr, stunRelayTcpUser |-> ""]

NoTcpTurn == [exists |-> FALSE, started |-> FALSE, stopping |-> FALSE,
              relayed |-> NullAddr, reflexive |-> NullAddr]

NoTransport == [kind |-> "none", ip |-> ""]
UdpRef(ip) == [kind |-> "udp", ip |-> ip]
TcpRef == [kind |-> "tcp", ip |-> ""]
\* what dereferencing localCandidates.end() yields
DanglingRef == [kind |-> "dangling", ip |-> ""]

\* nothing asked yet.  localTried: an update has run with a non-empty pending
\* list of local addresses; localIgnored: an update has run with a pending
\* address that is not installed, after addresses were installed; tcpCreated:
\* number of IceTurnTransport objects created; channelCalls: the calls of
\* addChannelPeer made on transports, in order
NoHist == [localTried |-> FALSE, localIgnored |-> FALSE, tcpCreated |-> 0,
           channelCalls |-> <<>>]

NoCand == [id |-> -1, addr |-> NullAddr, base |-> NullAddr, related |-> NullAddr,
           type |-> "none", priority |-> 0, componentId |-> 0, network |-> 0,
           iceTransport |-> NoTransport, path |-> 0]

\* the part of the state the handlers work on
Cur == [config |-> config, stopping |-> stopping, udpTransports |-> udpTransports,
        tcpTurn |-> tcpTurn, localCandidates |-> localCandidates,
        localFinished |-> localFinished, gatheringComplete |-> gatheringComplete,
        deferred |-> deferred, doExtTimer |-> doExtTimer,
        borrowedSocks |-> borrowedSocks, ownSocks |-> ownSocks,
        returnedSocks |-> returnedSocks, trace |-> trace,
        channelPeers |-> channelPeers, hist |-> hist]

Commit(s) ==
    /\ config' = s.config
    /\ stopping' = s.stopping
    /\ udpTransports' = s.udpTransports
    /\ tcpTurn' = s.tcpTurn
    /\ localCandidates' = s.localCandidates
    /\ localFinished' = s.localFinished
    /\ gatheringComplete' = s.gatheringComplete
    /\ deferred' = s.deferred
    /\ doExtTimer' = s.doExtTimer
    /\ borrowedSocks' = s.borrowedSocks
    /\ ownSocks' = s.ownSocks
    /\ returnedSocks' = s.returnedSocks
    /\ trace' = s.trace
    /\ channelPeers' = s.channelPeers
    /\ hist' = s.hist

\* emit q->signal(...)
emit(s, e, c) == [s EXCEPT !.trace = Append(@, [e |-> e, c |-> c])]

\* IceLocalTransport::localAddress
localAddress(lt) == TA(lt.addr, lt.port)

(***************************************************************************)
(* Helpers of IceComponent::Private                                        *)
(***************************************************************************)
\* mutant: the number of live candidates is taken as the next id
getId_count(cands) == Len(cands)

\* smallest id not used by a live candidate
getId(cands) ==
    CHOOSE n \in 0..Len(cands) :
        /\ \A i \in 1..Len(cands) : cands[i].id # n
        /\ \A m \in 0..(n - 1) : \E i \in 1..Len(cands) : cands[i].id = m

\* index (from 0) of addr in config.localAddrs, -1 if absent
findLocalAddr(cfg, addr) ==
    IF \E n \in 1..Len(cfg.localAddrs) : cfg.localAddrs[n].addr = addr
    THEN (CHOOSE n \in 1..Len(cfg.localAddrs) :
              /\ cfg.localAddrs[n].addr = addr
              /\ \A m \in 1..(n - 1) : cfg.localAddrs[m].addr # addr) - 1
    ELSE -1

\* mutant: the base of the candidates is not compared
storeLocalNotReduntantCandidate_anyBase(s, c) ==
    IF \E n \in 1..Len(s.localCandidates) :
           /\ AddrEq(s.localCandidates[n].addr, c.addr)
           /\ s.localCandidates[n].priority >= c.priority
    THEN s
    ELSE emit([s EXCEPT !.localCandidates = Append(@, c)], "candidateAdded", c)

storeLocalNotReduntantCandidate(s, c) ==
    IF \E n \in 1..Len(s.localCandidates) :
           /\ AddrEq(s.localCandidates[n].addr, c.addr)
           /\ AddrEq(s.localCandidates[n].base, c.base)
           /\ s.localCandidates[n].priority >= c.priority
    THEN s
    ELSE emit([s EXCEPT !.localCandidates = Append(@, c)], "candidateAdded", c)

\* k: position of the LocalTransport in udpTransports
ensureExt(s, k, addrAt) ==
    LET lt == s.udpTransports[k]
        c == [id |-> getId(s.localCandidates),
              addr |-> TA(lt.extAddr, localAddress(lt).port),
              base |-> localAddress(lt),
              related |-> localAddress(lt),
              type |-> "srflx",
              priority |-> choose_default_priority("srflx", 65535 - addrAt, lt.isVpn, id),
              componentId |-> id,
              network |-> lt.network,
              iceTransport |-> UdpRef(lt.addr),
              path |-> 0]
    IN IF lt.extAddr # "" /\ ~lt.ext_finished
       THEN storeLocalNotReduntantCandidate(
                [s EXCEPT !.udpTransports[k].ext_finished = TRUE], c)
       ELSE s

\* mutant: the channel peers of a removed candidate are kept
removeLocalCandidates_keepPeers(s, sock) ==
    LET gone == SelectSeq(s.localCandidates, LAMBDA c : c.iceTransport = sock)
        kept == SelectSeq(s.localCandidates, LAMBDA c : c.iceTransport # sock)
        removed == [n \in 1..Len(gone) |-> [e |-> "candidateRemoved", c |-> gone[n]]]
    IN [s EXCEPT !.localCandidates = kept, !.trace = @ \o removed]

removeLocalCandidates(s, sock) ==
    LET gone == SelectSeq(s.localCandidates, LAMBDA c : c.iceTransport = sock)
        kept == SelectSeq(s.localCandidates, LAMBDA c : c.iceTransport # sock)
        removed == [n \in 1..Len(gone) |-> [e |-> "candidateRemoved", c |-> gone[n]]]
    IN [s EXCEPT !.localCandidates = kept, !.trace = @ \o removed,
                 !.channelPeers = {e \in @ : \A n \in 1..Len(gone) : gone[n].id # e.id}]

allStopped(s) == s.udpTransports = <<>> /\ ~s.tcpTurn.exists

postStop(s) == emit([s EXCEPT !.stopping = FALSE], "stopped", NoCand)

tryStopped(s) == IF allStopped(s) THEN postStop(s) ELSE s

RemoveAt(seq, k) == [n \in 1..(Len(seq) - 1) |-> IF n < k THEN seq[n] ELSE seq[n + 1]]

eraseLocalTransport(s, k) ==
    LET lt == s.udpTransports[k]
        s1 == removeLocalCandidates(s, UdpRef(lt.addr))
        s2 == IF lt.borrowed
              THEN [s1 EXCEPT !.returnedSocks[lt.addr] = @ + 1]
              ELSE s1
    IN [s2 EXCEPT !.udpTransports = RemoveAt(@, k)]

\* mutant: the TURN phase is not waited for
checkFinished_noTurn(lt) ==
    /\ lt.started
    /\ (~isValid(lt.stunBindService) \/ lt.stun_finished)

checkFinished(lt) ==
    /\ lt.started
    /\ (~isValid(lt.stunBindService) \/ lt.stun_finished)
    /\ (~isValid(lt.stunRelayService) \/ lt.turn_finished)

\* mutant: the gatheringComplete flag is not consulted
tryGatheringComplete_noFlag(s) ==
    IF s.tcpTurn.exists /\ ~s.tcpTurn.started
    THEN s
    ELSE IF \A k \in 1..Len(s.udpTransports) : checkFinished(s.udpTransports[k])
         THEN emit([s EXCEPT !.gatheringComplete = TRUE], "gatheringComplete", NoCand)
         ELSE s

tryGatheringComplete(s) ==
    IF s.gatheringComplete \/ (s.tcpTurn.exists /\ ~s.tcpTurn.started)
    THEN s
    ELSE IF \A k \in 1..Len(s.udpTransports) : checkFinished(s.udpTransports[k])
         THEN emit([s EXCEPT !.gatheringComplete = TRUE], "gatheringComplete", NoCand)
         ELSE s


\* IceLocalTransport::stunStart: a Binding request goes out if a bind service is
\* set, a TURN Allocate if a relay service is set
stunStart(lt) ==
    [lt EXCEPT !.stunAlive = isValid(lt.stunBindService),
               !.turnAlive = isValid(lt.stunRelayService),
               !.stunStartCalls = @ + 1]

(***************************************************************************)
(* Signal handlers                                                         *)
(***************************************************************************)
\* mutant: the VPN flag of the interface is not passed on
hostCandidate_noVpn(s, lt, addrAt) ==
    [id |-> getId(s.localCandidates),
     addr |-> localAddress(lt),
     base |-> localAddress(lt),
     related |-> NullAddr,
     type |-> "host",
     priority |-> choose_default_priority("host", 65535 - addrAt, FALSE, id),
     componentId |-> id,
     network |-> lt.network,
     iceTransport |-> UdpRef(lt.addr),
     path |-> 0]

hostCandidate(s, lt, addrAt) ==
    [id |-> getId(s.localCandidates),
     addr |-> localAddress(lt),
     base |-> localAddress(lt),
     related |-> NullAddr,
     type |-> "host",
     priority |-> choose_default_priority("host", 65535 - addrAt, lt.isVpn, id),
     componentId |-> id,
     network |-> lt.network,
     iceTransport |-> UdpRef(lt.addr),
     path |-> 0]

\* mutant: the external address is emitted before the Host candidate
lt_started_local_extFirst(s, k, addrAt) ==
    LET s1 == ensureExt(s, k, addrAt)
        c == hostCandidate(s1, s1.udpTransports[k], addrAt)
    IN emit([s1 EXCEPT !.localCandidates = Append(@, c)], "candidateAdded", c)

\* lt_started, first part: the Host candidate and the external address
lt_started_local(s, k, addrAt) ==
    LET c == hostCandidate(s, s.udpTransports[k], addrAt)
        s1 == emit([s EXCEPT !.localCandidates = Append(@, c)], "candidateAdded", c)
    IN ensureExt(s1, k, addrAt)

\* lt_started, second part: start STUN/TURN or mark both phases finished
lt_started_stun(s, k) ==
    LET lt == s.udpTransports[k]
    IN IF lt.stun_started
       THEN s
       ELSE IF useStunBind /\ (isValid(lt.stunBindService) \/ isValid(lt.stunRelayService))
            THEN [s EXCEPT !.udpTransports[k] = stunStart([lt EXCEPT !.stun_started = TRUE])]
            ELSE [s EXCEPT !.udpTransports[k].stun_started = TRUE,
                           !.udpTransports[k].stun_finished = TRUE,
                           !.udpTransports[k].turn_finished = TRUE]

\* mutant: the flag is set but localFinished is not emitted
lt_started_finish_silent(s) ==
    IF ~s.localFinished /\ \A n \in 1..Len(s.udpTransports) : s.udpTransports[n].started
    THEN [s EXCEPT !.localFinished = TRUE]
    ELSE s

\* lt_started, third part: localFinished once every transport has started
lt_started_finish(s) ==
    IF ~s.localFinished /\ \A n \in 1..Len(s.udpTransports) : s.udpTransports[n].started
    THEN emit([s EXCEPT !.localFinished = TRUE], "localFinished", NoCand)
    ELSE s

lt_started(s, k) ==
    LET s1 == [s EXCEPT !.udpTransports[k].started = TRUE]
        addrAt == findLocalAddr(s.config, s.udpTransports[k].addr)
        s2 == IF useLocal THEN lt_started_local(s1, k, addrAt) ELSE s1
        s3 == lt_started_stun(s2, k)
        s4 == lt_started_finish(s3)
    IN tryGatheringComplete(s4)

\* the loop of lt_addressesChanged that hands the reflexive IP of transport k to
\* the transports on the same local address that have no external address yet
RECURSIVE assignExtToRelated(_, _, _, _)
assignExtToRelated(s, k, i, addrAt) ==
    IF i > Len(s.udpTransports)
    THEN s
    ELSE LET lt == s.udpTransports[k]
             li == s.udpTransports[i]
             s1 == [s EXCEPT !.udpTransports[i].extAddr = lt.srflx.ip]
         IN IF li.extAddr = "" /\ AddrEq(localAddress(li), localAddress(lt))
            THEN assignExtToRelated(IF li.started THEN ensureExt(s1, i, addrAt) ELSE s1,
                                    k, i + 1, addrAt)
            ELSE assignExtToRelated(s, k, i + 1, addrAt)

\* lt_addressesChanged, server-reflexive part
lt_addressesChanged_srflx(s, k, addrAt) ==
    LET lt0 == s.udpTransports[k]
        s1 == assignExtToRelated(s, k, 1, addrAt)
        lt == s1.udpTransports[k]
        c == [id |-> getId(s1.localCandidates),
              addr |-> lt.srflx,
              base |-> localAddress(lt),
              related |-> localAddress(lt),
              type |-> "srflx",
              priority |-> choose_default_priority("srflx", 65535 - addrAt, lt.isVpn, id),
              componentId |-> id,
              network |-> lt.network,
              iceTransport |-> UdpRef(lt.addr),
              path |-> 0]
    IN IF useStunBind /\ isValid(lt0.srflx) /\ ~lt0.stun_finished
       THEN storeLocalNotReduntantCandidate(
                [s1 EXCEPT !.udpTransports[k].stun_finished = TRUE], c)
       ELSE IF useStunBind /\ ~lt0.stunAlive /\ ~lt0.stun_finished
            THEN [s EXCEPT !.udpTransports[k].stun_finished = TRUE]
            ELSE s

\* mutant: the Relayed candidate of a C1 is given the direct path
lt_addressesChanged_relay_path0(s, k, addrAt) ==
    LET lt == s.udpTransports[k]
        c == [id |-> getId(s.localCandidates),
              addr |-> lt.relayed,
              base |-> lt.relayed,
              related |-> lt.srflx,
              type |-> "relay",
              priority |-> choose_default_priority("relay", 65535 - addrAt, lt.isVpn, id),
              componentId |-> id,
              network |-> lt.network,
              iceTransport |-> UdpRef(lt.addr),
              path |-> 0]
    IN IF isValid(lt.relayed) /\ ~lt.turn_finished
       THEN storeLocalNotReduntantCandidate(
                [s EXCEPT !.udpTransports[k].turn_finished = TRUE], c)
       ELSE IF ~lt.turnAlive /\ ~lt.turn_finished
            THEN [s EXCEPT !.udpTransports[k].turn_finished = TRUE]
            ELSE s

\* lt_addressesChanged, relayed part
lt_addressesChanged_relay(s, k, addrAt) ==
    LET lt == s.udpTransports[k]
        c == [id |-> getId(s.localCandidates),
              addr |-> lt.relayed,
              base |-> lt.relayed,
              related |-> lt.srflx,
              type |-> "relay",
              priority |-> choose_default_priority("relay", 65535 - addrAt, lt.isVpn, id),
              componentId |-> id,
              network |-> lt.network,
              iceTransport |-> UdpRef(lt.addr),
              path |-> 1]
    IN IF isValid(lt.relayed) /\ ~lt.turn_finished
       THEN storeLocalNotReduntantCandidate(
                [s EXCEPT !.udpTransports[k].turn_finished = TRUE], c)
       ELSE IF ~lt.turnAlive /\ ~lt.turn_finished
            THEN [s EXCEPT !.udpTransports[k].turn_finished = TRUE]
            ELSE s

lt_addressesChanged(s, k) ==
    LET addrAt == findLocalAddr(s.config, s.udpTransports[k].addr)
        s1 == lt_addressesChanged_srflx(s, k, addrAt)
        s2 == lt_addressesChanged_relay(s1, k, addrAt)
    IN tryGatheringComplete(s2)

\* mutant: every error of the transport ends it
lt_error_ends(s, k, error) == tryGatheringComplete(eraseLocalTransport(s, k))

\* the error handler connected in createLocalTransport
lt_error(s, k, error) ==
    IF error = "ErrorStun"
    THEN tryGatheringComplete([s EXCEPT !.udpTransports[k].stun_finished = TRUE])
    ELSE IF error = "ErrorTurn"
         THEN tryGatheringComplete([s EXCEPT !.udpTransports[k].turn_finished = TRUE])
         ELSE tryGatheringComplete(eraseLocalTransport(s, k))

\* the stopped handler connected in createLocalTransport
lt_stopped(s, k) == tryStopped(eraseLocalTransport(s, k))

tt_started(s) ==
    LET c == [id |-> getId(s.localCandidates),
              addr |-> s.tcpTurn.relayed,
              base |-> s.tcpTurn.relayed,
              related |-> s.tcpTurn.reflexive,
              type |-> "relay",
              priority |-> choose_default_priority("relay", 65535 - 1024, FALSE, id),
              componentId |-> id,
              network |-> 0,
              iceTransport |-> TcpRef,
              path |-> 0]
    IN tryGatheringComplete(
           emit([s EXCEPT !.localCandidates = Append(@, c)], "candidateAdded", c))

tt_stopped(s) ==
    tryStopped([removeLocalCandidates(s, TcpRef) EXCEPT !.tcpTurn = NoTcpTurn])

tt_error(s) ==
    tryGatheringComplete([removeLocalCandidates(s, TcpRef) EXCEPT !.tcpTurn = NoTcpTurn])


(***************************************************************************)
(* update                                                                  *)
(***************************************************************************)
\* "only allow setting stun stuff once"
update_stun(s) ==
    IF \/ (isValid(pending.stunBindAddr) /\ ~isValid(s.config.stunBindAddr))
       \/ (isValid(pending.stunRelayUdpAddr) /\ ~isValid(s.config.stunRelayUdpAddr))
       \/ (isValid(pending.stunRelayTcpAddr) /\ ~isValid(s.config.stunRelayTcpAddr))
    THEN [s EXCEPT !.config.stunBindAddr = pending.stunBindAddr,
                   !.config.stunRelayUdpAddr = pending.stunRelayUdpAddr,
                   !.config.stunRelayUdpUser = pending.stunRelayUdpUser,
                   !.config.stunRelayTcpAddr = pending.stunRelayTcpAddr,
                   !.config.stunRelayTcpUser = pending.stunRelayTcpUser]
    ELSE s

\* mutant: the services are attached whatever the protocol of the address
createLocalTransport_anyProtocol(cfg, la, borrowedSocket) ==
    [addr |-> la.addr, port |-> localPort(borrowedSocket),
     network |-> la.network, isVpn |-> la.isVpn,
     started |-> FALSE, stun_started |-> FALSE,
     stun_finished |-> FALSE, turn_finished |-> FALSE,
     extAddr |-> "", ext_finished |-> FALSE, borrowed |-> borrowedSocket,
     stunBindService |->
         IF useStunBind /\ isValid(cfg.stunBindAddr)
         THEN cfg.stunBindAddr ELSE NullAddr,
     stunRelayService |->
         IF useStunRelayUdp /\ isValid(cfg.stunRelayUdpAddr)
            /\ cfg.stunRelayUdpUser # ""
         THEN cfg.stunRelayUdpAddr ELSE NullAddr,
     srflx |-> NullAddr, relayed |-> NullAddr,
     stunAlive |-> FALSE, turnAlive |-> FALSE, sockStopping |-> FALSE,
     stunStartCalls |-> 0]

\* createLocalTransport and the configuration of its IceLocalTransport;
\* stunStartCalls counts the calls of stunStart on it
createLocalTransport(cfg, la, borrowedSocket) ==
    [addr |-> la.addr, port |-> localPort(borrowedSocket),
     network |-> la.network, isVpn |-> la.isVpn,
     started |-> FALSE, stun_started |-> FALSE,
     stun_finished |-> FALSE, turn_finished |-> FALSE,
     extAddr |-> "", ext_finished |-> FALSE, borrowed |-> borrowedSocket,
     stunBindService |->
         IF ~isIPv6(la.addr) /\ useStunBind /\ isValid(cfg.stunBindAddr)
         THEN cfg.stunBindAddr ELSE NullAddr,
     stunRelayService |->
         IF ~isIPv6(la.addr) /\ useStunRelayUdp /\ isValid(cfg.stunRelayUdpAddr)
            /\ cfg.stunRelayUdpUser # ""
         THEN cfg.stunRelayUdpAddr ELSE NullAddr,
     srflx |-> NullAddr, relayed |-> NullAddr,
     stunAlive |-> FALSE, turnAlive |-> FALSE, sockStopping |-> FALSE,
     stunStartCalls |-> 0]

\* the loop over pending.localAddrs; socketList: IPs with a lent socket left in
\* the list, bindFail: IPs on which bind fails
RECURSIVE update_local(_, _, _, _)
update_local(s, las, socketList, bindFail) ==
    IF las = <<>>
    THEN s
    ELSE LET la == Head(las)
             borrowedSocket == useLocal /\ la.addr \in socketList
             lt == createLocalTransport(s.config, la, borrowedSocket)
         IN IF findLocalAddr(s.config, la.addr) # -1
            THEN update_local(s, Tail(las), socketList, bindFail)
            ELSE IF ~borrowedSocket /\ la.addr \in bindFail
                 THEN update_local(s, Tail(las), socketList, bindFail)
                 ELSE update_local(
                          [s EXCEPT !.config.localAddrs = Append(@, la),
                                    !.udpTransports = Append(@, lt),
                                    !.borrowedSocks = IF borrowedSocket
                                                      THEN @ \cup {la.addr} ELSE @,
                                    !.ownSocks = IF borrowedSocket
                                                 THEN @ ELSE @ \cup {la.addr}],
                          Tail(las), socketList \ {la.addr}, bindFail)

\* first external address configured for the local address of lt, "" if none
findExtAddr(extAddrs, lt) ==
    LET match(ea) == ea.base = lt.addr /\ (ea.portBase = -1 \/ ea.portBase = lt.port)
    IN IF \E n \in 1..Len(extAddrs) : match(extAddrs[n])
       THEN extAddrs[CHOOSE n \in 1..Len(extAddrs) :
                         match(extAddrs[n]) /\ \A m \in 1..(n - 1) : ~match(extAddrs[m])].addr
       ELSE ""

\* "extAddrs created on demand if present, but only once"
update_ext(s) ==
    LET ext(lt) == IF lt.extAddr = "" /\ ~isIPv6(lt.addr)
                   THEN findExtAddr(pending.extAddrs, lt) ELSE ""
        need_doExt == \E n \in 1..Len(s.udpTransports) :
                          ext(s.udpTransports[n]) # "" /\ s.udpTransports[n].started
        uts == [n \in 1..Len(s.udpTransports) |->
                   IF ext(s.udpTransports[n]) # ""
                   THEN [s.udpTransports[n] EXCEPT !.extAddr = ext(s.udpTransports[n])]
                   ELSE s.udpTransports[n]]
    IN [s EXCEPT !.config.extAddrs = pending.extAddrs,
                 !.udpTransports = uts,
                 !.doExtTimer = IF need_doExt THEN @ + 1 ELSE @]

update_tcp(s) ==
    IF useStunRelayTcp /\ isValid(s.config.stunRelayTcpAddr)
       /\ s.config.stunRelayTcpUser # "" /\ ~s.tcpTurn.exists
    THEN [s EXCEPT !.tcpTurn = [NoTcpTurn EXCEPT !.exists = TRUE],
                   !.hist.tcpCreated = @ + 1]
    ELSE s

update_finish(s) ==
    LET s1 == IF s.udpTransports = <<>> /\ ~s.localFinished
              THEN [s EXCEPT !.localFinished = TRUE,
                             !.deferred = Append(@, "localFinished")]
              ELSE s
    IN [s1 EXCEPT !.deferred = Append(@, "tryGatheringComplete")]

\* what the history keeps of a call of update
update_hist(s) ==
    [s EXCEPT !.hist.localTried = @ \/ pending.localAddrs # <<>>,
              !.hist.localIgnored =
                  @ \/ (/\ s.config.localAddrs # <<>>
                        /\ \E n \in 1..Len(pending.localAddrs) :
                               findLocalAddr(s.config, pending.localAddrs[n].addr) = -1)]

\* mutant: local addresses are taken at every update
update_localAgain(s, socketList, bindFail) ==
    LET s0 == update_hist(s)
        s1 == update_stun(s0)
        s2 == IF pending.localAddrs # <<>>
              THEN update_local(s1, pending.localAddrs, socketList, bindFail)
              ELSE s1
        s3 == IF pending.extAddrs # <<>> /\ s2.config.extAddrs = <<>>
              THEN update_ext(s2)
              ELSE s2
    IN update_finish(update_tcp(s3))

update(s, socketList, bindFail) ==
    LET s0 == update_hist(s)
        s1 == update_stun(s0)
        s2 == IF pending.localAddrs # <<>> /\ s1.config.localAddrs = <<>>
              THEN update_local(s1, pending.localAddrs, socketList, bindFail)
              ELSE s1
        s3 == IF pending.extAddrs # <<>> /\ s2.config.extAddrs = <<>>
              THEN update_ext(s2)
              ELSE s2
    IN update_finish(update_tcp(s3))

\* the lambda update hands to QTimer::singleShot
RECURSIVE doExt_loop(_, _)
doExt_loop(s, k) ==
    IF k > Len(s.udpTransports)
    THEN s
    ELSE doExt_loop(IF s.udpTransports[k].started
                    THEN ensureExt(s, k, findLocalAddr(s.config, s.udpTransports[k].addr))
                    ELSE s,
                    k + 1)

doExt(s) == IF s.stopping THEN s ELSE doExt_loop(s, 1)

(***************************************************************************)
(* stop, peer-reflexive candidates                                         *)
(***************************************************************************)
stop(s) ==
    LET s1 == emit([s EXCEPT !.stopping = TRUE], "stop()", NoCand)
    IN IF allStopped(s1)
       THEN [s1 EXCEPT !.deferred = Append(@, "postStop")]
       ELSE [s1 EXCEPT !.udpTransports =
                           [n \in 1..Len(@) |-> [@[n] EXCEPT !.sockStopping = TRUE]],
                       !.tcpTurn.stopping = s1.tcpTurn.exists]

\* the peers channelPeers holds for candidate cid, {} if cid is no key
peersOf(cp, cid) == UNION {e.peers : e \in {x \in cp : x.id = cid}}

\* flagPathAsLowOverhead for the id of a live candidate
flagPathAsLowOverhead(s, cid, addr) ==
    LET c == CHOOSE x \in {s.localCandidates[n] : n \in 1..Len(s.localCandidates)} :
                 x.id = cid
        addrs == peersOf(s.channelPeers, cid)
        s1 == [s EXCEPT !.channelPeers =
                   {e \in @ : e.id # cid} \cup {[id |-> cid, peers |-> addrs \cup {addr}]}]
    IN IF addr \in addrs
       THEN s1
       ELSE [s1 EXCEPT !.hist.channelCalls =
                Append(@, [id |-> cid, peer |-> addr, iceTransport |-> c.iceTransport])]

\* std::distance(udpTransports.begin(), find_if(...)): position (from 0) of the
\* transport in udpTransports, the length of the list if it is not there
transportAt(uts, ip) ==
    IF \E n \in 1..Len(uts) : uts[n].addr = ip
    THEN (CHOOSE n \in 1..Len(uts) : uts[n].addr = ip) - 1
    ELSE Len(uts)

\* addrAt of peerReflexivePriority
peerReflexiveAddrAt(s, iceTransport, path) ==
    IF iceTransport.kind = "udp"
    THEN transportAt(s.udpTransports, iceTransport.ip) + (IF path = 1 THEN 512 ELSE 0)
    ELSE IF (iceTransport.kind = "tcp") = s.tcpTurn.exists
         THEN 1024
         ELSE -1

peerReflexivePriority(s, iceTransport, path) ==
    choose_default_priority("prflx", 65535 - peerReflexiveAddrAt(s, iceTransport, path),
                            FALSE, id)

\* base: the CandidateInfo the caller passes; baseCand: position of the first Host
\* candidate with the same base, 0 if there is none
findBaseCand(cands, base) ==
    LET match(c) == AddrEq(c.base, base.base) /\ c.type = "host"
    IN IF \E n \in 1..Len(cands) : match(cands[n])
       THEN CHOOSE n \in 1..Len(cands) : match(cands[n]) /\ \A m \in 1..(n - 1) : ~match(cands[m])
       ELSE 0

addLocalPeerReflexiveCandidate(s, addr, base, priority) ==
    LET baseCand == findBaseCand(s.localCandidates, base)
        c == [id |-> getId(s.localCandidates),
              addr |-> stripScope(addr),
              base |-> base.addr,
              related |-> base.addr,
              type |-> "prflx",
              priority |-> priority,
              componentId |-> base.componentId,
              network |-> base.network,
              iceTransport |-> IF baseCand = 0 THEN DanglingRef
                               ELSE s.localCandidates[baseCand].iceTransport,
              path |-> 0]
    IN emit([s EXCEPT !.localCandidates = Append(@, c)], "candidateAdded", c)


(***************************************************************************)
(* Actions.  A setter called with the value the field already has changes  *)
(* nothing and is left out.                                                *)
(***************************************************************************)
\* what no signal handler writes
handlerFrame == <<id, pending, useLocal, useStunBind, useStunRelayUdp, useStunRelayTcp,
                  freedSocks, life, calls, p_in, p_out>>

\* what no setter writes
setterFrame == <<id, config, stopping, udpTransports, tcpTurn, localCandidates,
                 localFinished, gatheringComplete, deferred, doExtTimer, borrowedSocks,
                 ownSocks, returnedSocks, freedSocks, life, trace, channelPeers, hist,
                 p_in, p_out>>

useFlags == <<useLocal, useStunBind, useStunRelayUdp, useStunRelayTcp>>

ApiCall == life = "alive" /\ calls < MaxCalls /\ calls' = calls + 1

Idle == life = "alive"

\* the fields of a component that is gone
Gone ==
    /\ pending' = EmptyConfig
    /\ config' = EmptyConfig
    /\ stopping' = FALSE
    /\ udpTransports' = <<>>
    /\ tcpTurn' = NoTcpTurn
    /\ localCandidates' = <<>>
    /\ localFinished' = FALSE
    /\ gatheringComplete' = FALSE
    /\ deferred' = <<>>
    /\ doExtTimer' = 0
    /\ channelPeers' = {}
    /\ hist' = NoHist
    /\ UNCHANGED <<id, useFlags, p_in, p_out>>

\* a failed Q_ASSERT ends a debug build: the process is gone; the history keeps
\* the function whose assertion failed
\* a release build goes on after a failed Q_ASSERT; the history keeps the
\* function whose assertion failed
asserted(s, ok, where) ==
    IF ok THEN s ELSE emit(s, "Q_ASSERT", [NoCand EXCEPT !.type = where])

Abort(where) ==
    /\ life' = "aborted"
    /\ trace' = <<[e |-> "Q_ASSERT", c |-> [NoCand EXCEPT !.type = where]]>>
    /\ Gone
    /\ UNCHANGED <<borrowedSocks, ownSocks, returnedSocks, freedSocks>>

SetLocalAddresses ==
    /\ ApiCall
    /\ \E addrs \in LocalAddrLists \ {pending.localAddrs} :
           pending' = [pending EXCEPT !.localAddrs = addrs]
    /\ UNCHANGED <<setterFrame, useFlags>>

SetExternalAddresses ==
    /\ ApiCall
    /\ \E addrs \in ExtAddrLists \ {pending.extAddrs} :
           pending' = [pending EXCEPT !.extAddrs = addrs]
    /\ UNCHANGED <<setterFrame, useFlags>>

SetStunBindService ==
    /\ ApiCall
    /\ \E addr \in StunBindAddrs \ {pending.stunBindAddr} :
           pending' = [pending EXCEPT !.stunBindAddr = addr]
    /\ UNCHANGED <<setterFrame, useFlags>>

SetStunRelayUdpService ==
    /\ ApiCall
    /\ \E addr \in StunRelayAddrs, user \in RelayUsers :
           /\ <<addr, user>> # <<pending.stunRelayUdpAddr, pending.stunRelayUdpUser>>
           /\ pending' = [pending EXCEPT !.stunRelayUdpAddr = addr,
                                         !.stunRelayUdpUser = user]
    /\ UNCHANGED <<setterFrame, useFlags>>

SetStunRelayTcpService ==
    /\ ApiCall
    /\ \E addr \in StunRelayAddrs, user \in RelayUsers :
           /\ <<addr, user>> # <<pending.stunRelayTcpAddr, pending.stunRelayTcpUser>>
           /\ pending' = [pending EXCEPT !.stunRelayTcpAddr = addr,
                                         !.stunRelayTcpUser = user]
    /\ UNCHANGED <<setterFrame, useFlags>>

SetUseLocal ==
    /\ ApiCall
    /\ \E enabled \in BOOLEAN \ {useLocal} : useLocal' = enabled
    /\ UNCHANGED <<setterFrame, pending, useStunBind, useStunRelayUdp, useStunRelayTcp>>

SetUseStunBind ==
    /\ ApiCall
    /\ \E enabled \in BOOLEAN \ {useStunBind} : useStunBind' = enabled
    /\ UNCHANGED <<setterFrame, pending, useLocal, useStunRelayUdp, useStunRelayTcp>>

SetUseStunRelayUdp ==
    /\ ApiCall
    /\ \E enabled \in BOOLEAN \ {useStunRelayUdp} : useStunRelayUdp' = enabled
    /\ UNCHANGED <<setterFrame, pending, useLocal, useStunBind, useStunRelayTcp>>

SetUseStunRelayTcp ==
    /\ ApiCall
    /\ \E enabled \in BOOLEAN \ {useStunRelayTcp} : useStunRelayTcp' = enabled
    /\ UNCHANGED <<setterFrame, pending, useLocal, useStunBind, useStunRelayUdp>>

Update ==
    /\ ApiCall
    /\ \/ /\ stopping                        \* Q_ASSERT(!stopping)
          /\ Abort("update")
       \/ /\ \E socketList \in SocketLists, bindFail \in BindFailures :
                 Commit(update(asserted(Cur, ~stopping, "update"), socketList, bindFail))
          /\ UNCHANGED <<id, pending, useFlags, freedSocks, life, p_in, p_out>>

Stop ==
    /\ ApiCall
    /\ \/ /\ stopping                        \* Q_ASSERT(!stopping)
          /\ Abort("stop")
       \/ /\ Commit(stop(asserted(Cur, ~stopping, "stop")))
          /\ UNCHANGED <<id, pending, useFlags, freedSocks, life, p_in, p_out>>

\* priorities Ice176 passes: the one peerReflexivePriority gives for
\* the transport and path of the base candidate, or any other number
PrflxPriorities(c) == { peerReflexivePriority(Cur, c.iceTransport, c.path), 1 }

AddLocalPeerReflexiveCandidate ==
    /\ ApiCall
    /\ \E n \in 1..Len(localCandidates), addr \in PeerAddrs :
       \E priority \in PrflxPriorities(localCandidates[n]) :
           \/ /\ findBaseCand(localCandidates, localCandidates[n]) = 0   \* Q_ASSERT(baseCand != end)
              /\ Abort("addLocalPeerReflexiveCandidate")
           \/ /\ Commit(addLocalPeerReflexiveCandidate(
                     asserted(Cur, findBaseCand(localCandidates, localCandidates[n]) # 0,
                              "addLocalPeerReflexiveCandidate"),
                     addr, localCandidates[n], priority))
              /\ UNCHANGED <<id, pending, useFlags, freedSocks, life, p_in, p_out>>

\* flagPathAsLowOverhead(id, addr) with the id of a live candidate or an id that
\* no candidate has
FlagPathAsLowOverhead ==
    /\ ApiCall
    /\ \E cid \in {localCandidates[n].id : n \in 1..Len(localCandidates)}
                  \cup {getId(localCandidates)},
          addr \in ChannelPeerAddrs :
           IF \E n \in 1..Len(localCandidates) : localCandidates[n].id = cid
           THEN /\ Commit(flagPathAsLowOverhead(Cur, cid, addr))
                /\ UNCHANGED <<id, pending, useFlags, freedSocks, life, p_in, p_out>>
           ELSE \/ Abort("flagPathAsLowOverhead")          \* Q_ASSERT(at != -1)
                \/ /\ Commit(asserted(Cur, FALSE, "flagPathAsLowOverhead"))
                   /\ UNCHANGED <<id, pending, useFlags, freedSocks, life, p_in, p_out>>

\* ~IceComponent / ~Private: the QUdpSocket children of Private die with it
Destroy ==
    /\ life = "alive"
    /\ life' = "destroyed"
    /\ freedSocks' = ownSocks \cup
                     {udpTransports[n].addr : n \in
                          {m \in 1..Len(udpTransports) : udpTransports[m].borrowed}}
    /\ trace' = <<>>
    /\ Gone
    /\ UNCHANGED <<borrowedSocks, ownSocks, returnedSocks, calls>>

\* the next call queued with sess.defer
RunDeferred ==
    /\ Idle
    /\ deferred # <<>>
    /\ LET s == [Cur EXCEPT !.deferred = Tail(@)]
       IN Commit(IF Head(deferred) = "localFinished" THEN emit(s, "localFinished", NoCand)
                 ELSE IF Head(deferred) = "tryGatheringComplete" THEN tryGatheringComplete(s)
                 ELSE postStop(s))
    /\ UNCHANGED handlerFrame

RunDoExt ==
    /\ Idle
    /\ doExtTimer > 0
    /\ Commit(doExt([Cur EXCEPT !.doExtTimer = @ - 1]))
    /\ UNCHANGED handlerFrame

\* IceLocalTransport signals started
LtStarted ==
    /\ Idle
    /\ \E k \in 1..Len(udpTransports) :
           /\ ~udpTransports[k].started
           /\ Commit(lt_started(Cur, k))
    /\ UNCHANGED handlerFrame

\* the Binding request succeeds: the transport learns its reflexive address and
\* signals addressesChanged
LtBindingSuccess ==
    /\ Idle
    /\ \E k \in 1..Len(udpTransports) :
           /\ udpTransports[k].stunAlive
           /\ \E m \in MappedAddrs(localAddress(udpTransports[k])) :
                  Commit(lt_addressesChanged(
                      [Cur EXCEPT !.udpTransports[k].srflx = m,
                                  !.udpTransports[k].stunAlive = FALSE], k))
    /\ UNCHANGED handlerFrame

\* the Binding request fails or times out: error(ErrorStun)
LtBindingError ==
    /\ Idle
    /\ \E k \in 1..Len(udpTransports) :
           /\ udpTransports[k].stunAlive
           /\ Commit(lt_error([Cur EXCEPT !.udpTransports[k].stunAlive = FALSE], k, "ErrorStun"))
    /\ UNCHANGED handlerFrame

\* the TURN allocation succeeds: the transport learns its relayed address, and the
\* mapped address of the allocation if it has no reflexive address of its own
\* Binding, and signals addressesChanged
LtTurnActivated ==
    /\ Idle
    /\ \E k \in 1..Len(udpTransports) :
           /\ udpTransports[k].turnAlive
           /\ ~isValid(udpTransports[k].relayed)
           /\ \E m \in {udpTransports[k].srflx} \cup
                       (IF isValid(udpTransports[k].srflx) THEN {}
                        ELSE {TA("203.0.113.9", 40001)}) :
                  Commit(lt_addressesChanged(
                      [Cur EXCEPT !.udpTransports[k].relayed = RelayedUdp,
                                  !.udpTransports[k].srflx = m], k))
    /\ UNCHANGED handlerFrame

\* the TURN client fails: error(ErrorTurn)
LtTurnError ==
    /\ Idle
    /\ \E k \in 1..Len(udpTransports) :
           /\ udpTransports[k].turnAlive
           /\ Commit(lt_error([Cur EXCEPT !.udpTransports[k].turnAlive = FALSE], k, "ErrorTurn"))
    /\ UNCHANGED handlerFrame

\* mutant: losing the last transport to an error ends the engine with stopped
LtSocketError_fatal ==
    /\ Idle
    /\ \E k \in 1..Len(udpTransports) :
           LET s == eraseLocalTransport(Cur, k)
           IN Commit(IF allStopped(s) THEN postStop(s) ELSE tryGatheringComplete(s))
    /\ UNCHANGED handlerFrame

\* any other error of the transport (ErrorBind, a socket error)
LtSocketError ==
    /\ Idle
    /\ \E k \in 1..Len(udpTransports) : Commit(lt_error(Cur, k, "ErrorBind"))
    /\ UNCHANGED handlerFrame

\* the transport acknowledges stop()
LtStopped ==
    /\ Idle
    /\ \E k \in 1..Len(udpTransports) :
           /\ udpTransports[k].sockStopping
           /\ Commit(lt_stopped(Cur, k))
    /\ UNCHANGED handlerFrame

TtStarted ==
    /\ Idle
    /\ tcpTurn.exists /\ ~tcpTurn.started
    /\ Commit(tt_started([Cur EXCEPT !.tcpTurn.started = TRUE,
                                     !.tcpTurn.relayed = RelayedTcp,
                                     !.tcpTurn.reflexive = MappedTcp]))
    /\ UNCHANGED handlerFrame

TtStopped ==
    /\ Idle
    /\ tcpTurn.exists /\ tcpTurn.stopping
    /\ Commit(tt_stopped(Cur))
    /\ UNCHANGED handlerFrame

TtError ==
    /\ Idle
    /\ tcpTurn.exists
    /\ Commit(tt_error(Cur))
    /\ UNCHANGED handlerFrame

(***************************************************************************)
(* Specification of the engine                                             *)
(***************************************************************************)
NoPrio == [type |-> "none", typePref |-> 0, localPref |-> 0, isVpn |-> FALSE, componentId |-> 0]

EngineInit ==
    /\ id \in ComponentIds
    /\ pending = EmptyConfig
    /\ config = EmptyConfig
    /\ useLocal = TRUE
    /\ useStunBind = TRUE
    /\ useStunRelayUdp = TRUE
    /\ useStunRelayTcp = TRUE
    /\ stopping = FALSE
    /\ udpTransports = <<>>
    /\ tcpTurn = NoTcpTurn
    /\ localCandidates = <<>>
    /\ localFinished = FALSE
    /\ gatheringComplete = FALSE
    /\ deferred = <<>>
    /\ doExtTimer = 0
    /\ borrowedSocks = {}
    /\ ownSocks = {}
    /\ returnedSocks = [ip \in LocalIPs |-> 0]
    /\ freedSocks = {}
    /\ life = "alive"
    /\ calls = 0
    /\ trace = <<>>
    /\ channelPeers = {}
    /\ hist = NoHist

Init ==
    /\ EngineInit
    /\ p_in = NoPrio
    /\ p_out = <<>>

Next ==
    \/ SetLocalAddresses
    \/ SetExternalAddresses
    \/ SetStunBindService
    \/ SetStunRelayUdpService
    \/ SetStunRelayTcpService
    \/ SetUseLocal
    \/ SetUseStunBind
    \/ SetUseStunRelayUdp
    \/ SetUseStunRelayTcp
    \/ Update
    \/ Stop
    \/ AddLocalPeerReflexiveCandidate
    \/ FlagPathAsLowOverhead
    \/ Destroy
    \/ RunDeferred
    \/ RunDoExt
    \/ LtStarted
    \/ LtBindingSuccess
    \/ LtBindingError
    \/ LtTurnActivated
    \/ LtTurnError
    \/ LtSocketError
    \/ LtStopped
    \/ TtStarted
    \/ TtStopped
    \/ TtError

Spec == Init /\ [][Next]_vars


(***************************************************************************)
(* Specification of the priority functions: the inputs are drawn in the    *)
(* initial state, the action applies the functions                         *)
(***************************************************************************)
CandidateTypes == {"host", "prflx", "srflx", "relay"}
TypePrefs == {0, 1, 100, 110, 126}
LocalPrefs == {0, 1, 255, 256, 64511, 65023, 65534, 65535}
PrioComponentIds == {1, 2, 255, 256}

PrioInit ==
    /\ EngineInit
    /\ p_in \in [type : CandidateTypes, typePref : TypePrefs, localPref : LocalPrefs,
                 isVpn : BOOLEAN, componentId : PrioComponentIds]
    /\ p_out = <<>>

PrioCompute ==
    /\ p_out = <<>>
    /\ p_out' = << calc_priority(p_in.typePref, p_in.localPref, p_in.componentId),
                   choose_default_priority(p_in.type, p_in.localPref, p_in.isVpn,
                                           p_in.componentId),
                   choose_default_priority(p_in.type, p_in.localPref, ~p_in.isVpn,
                                           p_in.componentId) >>
    /\ UNCHANGED <<p_in, engineVars>>

PrioNext == PrioCompute

PrioSpec == PrioInit /\ [][PrioNext]_vars

(***************************************************************************)
(* Properties                                                              *)
(***************************************************************************)
\* positions of the events of one kind in the trace
Events(e) == {i \in 1..Len(trace) : trace[i].e = e}

\* positions of the candidateAdded events that carry a candidate of these types
Added(types) == {i \in Events("candidateAdded") : trace[i].c.type \in types}

\* the type preference table of the specification
SpecTypePref(type, isVpn) ==
    CASE type = "host" /\ ~isVpn -> 126
      [] type = "host" /\ isVpn -> 0
      [] type = "prflx" -> 110
      [] type = "srflx" -> 100
      [] type = "relay" -> 0

\* the priority formula of the specification
SpecPriority(typePref, localPref, componentId) ==
    (2 ^ 24) * typePref + (2 ^ 8) * localPref + (256 - componentId)

\* C1: calc_priority returns 2^24*type_pref + 2^8*local_pref + (256 - component_id);
\* choose_default_priority feeds it 126 for a non-VPN Host, 0 for a VPN Host, 110
\* for PeerReflexive, 100 for ServerReflexive, 0 for Relayed; the VPN flag changes
\* the result only for Host.
C1_PriorityFormula ==
    p_out # <<>> =>
        /\ p_out[1] = SpecPriority(p_in.typePref, p_in.localPref, p_in.componentId)
        /\ p_out[2] = SpecPriority(SpecTypePref(p_in.type, p_in.isVpn), p_in.localPref,
                                   p_in.componentId)
        /\ (p_in.type # "host" => p_out[3] = p_out[2])
        /\ (p_in.type = "host" => p_out[3] # p_out[2])

C1_Witness ==
    /\ p_out # <<>>
    /\ p_in.type = "host" /\ p_in.isVpn
    /\ p_in.typePref = 126 /\ p_in.localPref = 65535 /\ p_in.componentId = 1
    /\ p_out[1] = 2130706431

\* addr_index of the transport of a candidate: its position in the local-address
\* list, 1024 for the TCP-TURN transport
SpecAddrIndex(c) ==
    IF c.iceTransport.kind = "tcp" THEN 1024 ELSE findLocalAddr(config, c.iceTransport.ip)

\* is_vpn flag of the transport of a candidate
SpecIsVpn(c) ==
    /\ c.iceTransport.kind = "udp"
    /\ \E n \in 1..Len(config.localAddrs) :
           config.localAddrs[n].addr = c.iceTransport.ip /\ config.localAddrs[n].isVpn

FollowsFormula(c) ==
    c.priority = SpecPriority(SpecTypePref(c.type, SpecIsVpn(c)),
                              65535 - SpecAddrIndex(c), id)

\* C2 as stated: every emitted candidate, PeerReflexive included, has the priority
\* the formula gives for its type, transport index, VPN flag and component id.
C2_AllFollowFormula ==
    \A i \in Added({"host", "srflx", "relay", "prflx"}) : FollowsFormula(trace[i].c)

\* C2 amended: every emitted Host, ServerReflexive and Relayed candidate has the
\* priority the formula gives (a PeerReflexive candidate carries the priority its
\* caller passed).
C2_GatheredFollowFormula ==
    \A i \in Added({"host", "srflx", "relay"}) : FollowsFormula(trace[i].c)

\* a VPN Host, a ServerReflexive and a Relayed candidate were emitted for the
\* second local address
C2_Witness ==
    /\ \E i \in Added({"host"}) : trace[i].c.priority = 256 * 65534 + 255
    /\ \E i \in Added({"srflx"}) : SpecAddrIndex(trace[i].c) = 1
    /\ \E i \in Added({"relay"}) : TRUE

\* C3: the live candidate list never holds two distinct candidates with equal
\* addr, equal base and a.priority <= b.priority.
C3_NoRedundantPair ==
    \A a, b \in 1..Len(localCandidates) :
        a # b => ~ /\ AddrEq(localCandidates[a].addr, localCandidates[b].addr)
                   /\ AddrEq(localCandidates[a].base, localCandidates[b].base)
                   /\ localCandidates[a].priority <= localCandidates[b].priority

\* C4: gatheringComplete is emitted at most once in the life of a component, and
\* once the gatheringComplete flag is true nothing sets it back to false.
C4_GatheringCompleteOnce ==
    /\ [](Cardinality(Events("gatheringComplete")) <= 1)
    /\ [][life' = "alive" /\ gatheringComplete => gatheringComplete']_vars

\* gatheringComplete was emitted and a later handler emitted a candidate and
\* evaluated completeness again
C4_Witness ==
    \E i \in Events("gatheringComplete") :
        \E j \in Added({"host", "srflx", "relay"}) : i < j

\* C5: at the moment gatheringComplete is emitted every C1 is started, has
\* stun_finished if it has a STUN-bind service, has turn_finished if it has a
\* STUN-relay service, and the TCP-TURN transport does not exist or has started.
C5_CompleteOnlyWhenFinished ==
    [][Cardinality(Events("gatheringComplete")') > Cardinality(Events("gatheringComplete")) =>
         /\ \A k \in 1..Len(udpTransports') :
                /\ udpTransports'[k].started
                /\ isValid(udpTransports'[k].stunBindService) => udpTransports'[k].stun_finished
                /\ isValid(udpTransports'[k].stunRelayService) => udpTransports'[k].turn_finished
         /\ (tcpTurn'.exists => tcpTurn'.started)]_vars

\* gatheringComplete was emitted with a C1 that has a STUN service and with a
\* TCP-TURN transport
C5_Witness ==
    /\ Events("gatheringComplete") # {}
    /\ tcpTurn.exists
    /\ \E k \in 1..Len(udpTransports) :
           \/ isValid(udpTransports[k].stunBindService)
           \/ isValid(udpTransports[k].stunRelayService)

\* C6: once gatheringComplete has been emitted, no later candidateAdded carries a
\* Host, ServerReflexive or Relayed candidate.
C6_NoGatheredAfterComplete ==
    \A i \in Events("gatheringComplete") :
        \A j \in Added({"host", "srflx", "relay"}) : j < i

\* C7: gatheringComplete is never emitted before localFinished.
C7_LocalFinishedFirst ==
    \A j \in Events("gatheringComplete") :
        \E i \in Events("localFinished") : i < j

\* rank of a candidate type in the order Host, ServerReflexive, Relayed
TypeRank(type) == CASE type = "host" -> 0 [] type = "srflx" -> 1 [] type = "relay" -> 2

\* C8 as stated: for every C1 the emissions are ordered Host, ServerReflexive,
\* Relayed.
C8_TypeOrder ==
    \A i, j \in Added({"host", "srflx", "relay"}) :
        (/\ i < j
         /\ trace[i].c.iceTransport.kind = "udp"
         /\ trace[i].c.iceTransport = trace[j].c.iceTransport)
        => TypeRank(trace[i].c.type) <= TypeRank(trace[j].c.type)

\* C8 amended: for every C1 the Host emission precedes every ServerReflexive and
\* every Relayed emission backed by that C1 (ServerReflexive and Relayed come in
\* the order in which STUN and TURN answer).
C8_HostFirst ==
    \A i, j \in Added({"host", "srflx", "relay"}) :
        (/\ i < j
         /\ trace[i].c.iceTransport.kind = "udp"
         /\ trace[i].c.iceTransport = trace[j].c.iceTransport)
        => trace[j].c.type # "host"

\* a C1 emitted its Host candidate, then a Relayed one, then a ServerReflexive one
C8_Witness ==
    \E i, j, k \in Added({"host", "srflx", "relay"}) :
        /\ i < j /\ j < k
        /\ trace[i].c.iceTransport = trace[j].c.iceTransport
        /\ trace[j].c.iceTransport = trace[k].c.iceTransport
        /\ trace[i].c.type = "host"
        /\ trace[j].c.type = "relay"
        /\ trace[k].c.type = "srflx"

\* C9: after stop() has been called no candidateAdded is emitted before the
\* engine reports stopped.
C9_NoCandidateAfterStop ==
    \A i \in Events("stop()") :
        \A j \in Events("candidateAdded") :
            i < j => \E k \in Events("stopped") : i < k /\ k < j

\* IPs of the live C1 transports
LiveIPs == {udpTransports[k].addr : k \in 1..Len(udpTransports)}

\* C10: every borrowed socket goes back to the port reserver exactly once, when
\* its C1 is removed, and is never freed by the engine; a socket the engine bound
\* itself never goes to the port reserver.
C10_BorrowedReturnedOnce ==
    life \in {"alive", "destroyed"} =>
        /\ \A ip \in borrowedSocks :
               /\ ip \notin freedSocks
               /\ returnedSocks[ip] = (IF ip \in LiveIPs THEN 0 ELSE 1)
        /\ \A ip \in LocalIPs \ borrowedSocks : returnedSocks[ip] = 0


\* the fields of the engine
EngineState == <<config, stopping, udpTransports, tcpTurn, localCandidates, localFinished,
                 gatheringComplete, deferred, doExtTimer>>

\* C11: stop() called again while the first stop is in progress (children have
\* not acknowledged yet) violates no assertion, leaves the engine in the same
\* state and adds no stopped event.
C11_StopIdempotent ==
    [][(Stop /\ stopping /\ ~allStopped(Cur))
         => /\ life' = "alive"
            /\ EngineState' = EngineState
            /\ Events("stopped")' = Events("stopped")]_vars


\* positions of the failed assertions of one function
Failed(where) == {i \in Events("Q_ASSERT") : trace[i].c.type = where}

\* C12 as stated: whenever stopped is emitted the engine holds no C1 and no TCP-TURN
\* transport, and stopped is emitted at most once per stop() call.
C12_StoppedWhenAllGone ==
    /\ [](Cardinality(Events("stopped")) <= Cardinality(Events("stop()")))
    /\ [][(life' = "alive" /\ Cardinality(Events("stopped")') > Cardinality(Events("stopped")))
            => (udpTransports' = <<>> /\ ~tcpTurn'.exists)]_vars


(***************************************************************************)
(* Specification of gathering: the engine is configured and updated but    *)
(* neither stopped nor destroyed.  The event loop runs what was deferred,  *)
(* a bound transport reports started, a Binding request and an allocation  *)
(* that stay outstanding are answered (an error or a timeout may come      *)
(* first), a TCP-TURN transport that stays unstarted starts.               *)
(***************************************************************************)
GatherNext ==
    \/ SetLocalAddresses
    \/ SetExternalAddresses
    \/ SetStunBindService
    \/ SetStunRelayUdpService
    \/ SetStunRelayTcpService
    \/ SetUseLocal
    \/ SetUseStunBind
    \/ SetUseStunRelayUdp
    \/ SetUseStunRelayTcp
    \/ Update
    \/ RunDeferred
    \/ RunDoExt
    \/ LtStarted
    \/ LtBindingSuccess
    \/ LtBindingError
    \/ LtTurnActivated
    \/ LtTurnError
    \/ LtSocketError
    \/ TtStarted
    \/ TtError

\* the conditions under which the environment can deliver each signal
CanLtStarted == Idle /\ \E k \in 1..Len(udpTransports) : ~udpTransports[k].started
CanLtBindingSuccess == Idle /\ \E k \in 1..Len(udpTransports) : udpTransports[k].stunAlive
CanLtTurnActivated ==
    Idle /\ \E k \in 1..Len(udpTransports) :
                udpTransports[k].turnAlive /\ ~isValid(udpTransports[k].relayed)
CanTtStarted == Idle /\ tcpTurn.exists /\ ~tcpTurn.started

\* Weak fairness of the event loop and of the signals.  Each signal changes the
\* state whenever it can be delivered, so its weak fairness is written with the
\* condition of delivery in place of ENABLED.
GatherFairness ==
    /\ WF_vars(RunDeferred)
    /\ WF_vars(RunDoExt)
    /\ ([]<>~CanLtStarted \/ []<><<LtStarted>>_vars)
    /\ ([]<>~CanLtBindingSuccess \/ []<><<LtBindingSuccess>>_vars)
    /\ ([]<>~CanLtTurnActivated \/ []<><<LtTurnActivated>>_vars)
    /\ ([]<>~CanTtStarted \/ []<><<TtStarted>>_vars)

GatherSpec == Init /\ [][GatherNext]_vars /\ GatherFairness

\* update has queued its evaluation of completeness
UpdateCalled == \E n \in 1..Len(deferred) : deferred[n] = "tryGatheringComplete"

\* C13: after update, if every C1 reports started, every STUN and TURN phase ends
\* with an address or an error and the TCP-TURN transport starts or errors, then
\* gatheringComplete is emitted.
C13_GatheringCompletes == UpdateCalled ~> (Events("gatheringComplete") # {})


\* scenario S1: the only calls made are setLocalAddresses with the single non-VPN
\* IPv4 address and update, and the transport has reported started
S1_Started ==
    /\ life = "alive"
    /\ calls = 2
    /\ config.localAddrs = <<LA_A>>
    /\ Len(udpTransports) = 1
    /\ udpTransports[1].started

\* C14: in scenario S1 the events are exactly candidateAdded(Host, addr = base =
\* the bound local address, path 0, priority 126*2^24 + 65535*2^8 + 255), then
\* localFinished, then gatheringComplete.
C14_HostOnlySequence ==
    S1_Started =>
        /\ Len(trace) = 3
        /\ trace[1].e = "candidateAdded"
        /\ trace[1].c.type = "host"
        /\ trace[1].c.addr = localAddress(udpTransports[1])
        /\ trace[1].c.base = trace[1].c.addr
        /\ trace[1].c.path = 0
        /\ trace[1].c.priority = 126 * 16777216 + 65535 * 256 + 255
        /\ trace[2].e = "localFinished"
        /\ trace[3].e = "gatheringComplete"
        /\ Len(localCandidates) = 1

C14_Witness == S1_Started /\ ~LA_A.isVpn /\ id = 1 /\ deferred = <<>>


\* the candidates emitted so far, in the order of emission
AddedSeq == [n \in 1..Len(SelectSeq(trace, LAMBDA x : x.e = "candidateAdded")) |->
                 SelectSeq(trace, LAMBDA x : x.e = "candidateAdded")[n].c]

\* scenario S2: the only calls made are setLocalAddresses with the single IPv4
\* address, setStunBindService and update, and the transport has learnt a
\* reflexive address M that differs from its local address
S2_Reflexive ==
    /\ life = "alive"
    /\ calls = 3
    /\ config.localAddrs = <<LA_A>>
    /\ isValid(config.stunBindAddr)
    /\ Len(udpTransports) = 1
    /\ isValid(udpTransports[1].srflx)
    /\ udpTransports[1].srflx # localAddress(udpTransports[1])

\* C15: in scenario S2 the second candidate emitted, directly after the Host
\* candidate, is a ServerReflexive candidate with addr = M, base = the bound local
\* address, related = base, path 0 and type preference 100.
C15_ReflexiveSecond ==
    S2_Reflexive =>
        /\ Len(AddedSeq) >= 2
        /\ AddedSeq[1].type = "host"
        /\ AddedSeq[2].type = "srflx"
        /\ AddedSeq[2].addr = udpTransports[1].srflx
        /\ AddedSeq[2].base = localAddress(udpTransports[1])
        /\ AddedSeq[2].related = AddedSeq[2].base
        /\ AddedSeq[2].path = 0
        /\ AddedSeq[2].priority = SpecPriority(100, 65535, id)


\* the emissions of the candidate synthesized from the external address of
\* transport lt
ExtEmissions(lt) ==
    {i \in Added({"srflx"}) :
        /\ trace[i].c.iceTransport = UdpRef(lt.addr)
        /\ trace[i].c.addr = TA(lt.extAddr, lt.port)
        /\ trace[i].c.base = localAddress(lt)
        /\ trace[i].c.related = trace[i].c.base
        /\ trace[i].c.path = 0}

\* scenario S3 for transport k: it was given an external address, it has reported
\* started, no STUN reply has arrived and no deferred emission is pending
S3_Started(k) ==
    /\ life = "alive"
    /\ udpTransports[k].started
    /\ udpTransports[k].extAddr # ""
    /\ ~isValid(udpTransports[k].srflx)
    /\ doExtTimer = 0

\* C16: a started C1 whose local address an ExternalAddress matched has emitted,
\* before any STUN reply, exactly one ServerReflexive candidate with addr =
\* (mapped ip, bound port), base = the bound local address, related = base and
\* path 0, whatever the use_local switch.
C16_ExternalAtStarted ==
    \A k \in 1..Len(udpTransports) :
        S3_Started(k) => Cardinality(ExtEmissions(udpTransports[k])) = 1


\* scenario S4: the only calls made are setLocalAddresses with the single IPv4
\* address, setStunBindService, setStunRelayUdpService and update; the transport
\* has learnt its relayed address R and a mapped address M that differs from its
\* local address, and both phases have ended
S4_Allocated ==
    /\ life = "alive"
    /\ calls = 4
    /\ config.localAddrs = <<LA_A>>
    /\ isValid(config.stunBindAddr)
    /\ isValid(config.stunRelayUdpAddr)
    /\ Len(udpTransports) = 1
    /\ isValid(udpTransports[1].relayed)
    /\ isValid(udpTransports[1].srflx)
    /\ udpTransports[1].srflx # localAddress(udpTransports[1])
    /\ udpTransports[1].stun_finished
    /\ udpTransports[1].turn_finished

\* C17: in scenario S4 exactly three candidates are emitted (Host, ServerReflexive,
\* Relayed); the Relayed one has addr = base = R, related = M and path 1; and
\* gatheringComplete comes after the ServerReflexive and the Relayed candidate.
C17_ThreeCandidates ==
    S4_Allocated =>
        /\ Len(AddedSeq) = 3
        /\ {AddedSeq[n].type : n \in 1..3} = {"host", "srflx", "relay"}
        /\ \A i \in Added({"relay"}) :
               /\ trace[i].c.addr = udpTransports[1].relayed
               /\ trace[i].c.base = udpTransports[1].relayed
               /\ trace[i].c.related = udpTransports[1].srflx
               /\ trace[i].c.path = 1
        /\ \A g \in Events("gatheringComplete") :
               /\ \E i \in Added({"srflx"}) : i < g
               /\ \E i \in Added({"relay"}) : i < g


\* the live candidates
Live == {localCandidates[n] : n \in 1..Len(localCandidates)}

\* C18: every live Host candidate has base = addr and path 0; every live Relayed
\* candidate of a C1 has path 1; every live Relayed candidate of the TCP-TURN
\* transport has path 0; no other candidate has path 1.
C18_PathInvariants ==
    \A c \in Live :
        /\ c.type = "host" => (c.base = c.addr /\ c.path = 0)
        /\ (c.type = "relay" /\ c.iceTransport.kind = "udp") => c.path = 1
        /\ (c.type = "relay" /\ c.iceTransport.kind = "tcp") => c.path = 0
        /\ c.path = 1 => (c.type = "relay" /\ c.iceTransport.kind = "udp")

C18_Witness ==
    /\ \E c \in Live : c.type = "host"
    /\ \E c \in Live : c.type = "relay" /\ c.iceTransport.kind = "udp"
    /\ \E c \in Live : c.type = "relay" /\ c.iceTransport.kind = "tcp"


\* the engine holds the transport a candidate refers to
Held(ref) ==
    \/ ref.kind = "udp" /\ ref.ip \in LiveIPs
    \/ ref.kind = "tcp" /\ tcpTurn.exists

\* the candidateRemoved events for candidate c
Removals(c) == {i \in Events("candidateRemoved") : trace[i].c = c}

\* C19: when a transport reports stopped or an error that ends it, every live
\* candidate it backs, PeerReflexive ones included, is removed with exactly one
\* candidateRemoved; in every state the transport of each live candidate is one
\* the engine holds.
C19_RemovedWithTransport ==
    /\ [](life = "alive" => \A c \in Live : Held(c.iceTransport))
    /\ [][life' = "alive" =>
            \A c \in Live \ Live' :
                Cardinality(Removals(c)') = Cardinality(Removals(c)) + 1]_vars


\* the ids of the live candidates
LiveIds == {localCandidates[n].id : n \in 1..Len(localCandidates)}

\* C20: no two live candidates have the same id; a new candidate gets the
\* smallest non-negative integer no live candidate holds, so an id is given again
\* only after the candidate that held it was removed.
C20_UniqueIds ==
    /\ [](\A m, n \in 1..Len(localCandidates) :
              localCandidates[m].id = localCandidates[n].id => m = n)
    /\ [][life' = "alive" =>
            \A c \in Live' \ Live :
                /\ c.id >= 0
                /\ c.id \notin LiveIds
                /\ \A j \in 0..(c.id - 1) : j \in LiveIds']_vars

\* an id is held again by a candidate added after the removal of its first holder
C20_Witness ==
    \E r \in Events("candidateRemoved") : \E a \in Events("candidateAdded") :
        /\ r < a
        /\ trace[a].c.id = trace[r].c.id
        /\ trace[a].c \in Live
        /\ Cardinality(LiveIds) >= 2


\* no two C1s are on the same local IP
DistinctLocalIPs ==
    \A m, n \in 1..Len(udpTransports) :
        udpTransports[m].addr = udpTransports[n].addr => m = n

\* C21 as stated: once an update has run with a non-empty pending list of local
\* addresses, no step creates a C1 or changes the active local-address list; no
\* two C1s share a local IP.
C21_LocalAddrsOnce ==
    /\ []DistinctLocalIPs
    /\ [][(life' = "alive" /\ hist.localTried) =>
            /\ config'.localAddrs = config.localAddrs
            /\ Len(udpTransports') <= Len(udpTransports)]_vars

\* C21 amended: once an update has installed a local address, no step creates a
\* C1 or changes the active local-address list, also after transports were
\* removed or after a completed stop; no two C1s share a local IP.
C21_InstalledOnce ==
    /\ []DistinctLocalIPs
    /\ [][(life' = "alive" /\ config.localAddrs # <<>>) =>
            /\ config'.localAddrs = config.localAddrs
            /\ Len(udpTransports') <= Len(udpTransports)]_vars

\* a later update has passed over pending addresses, one of them not yet
\* installed, after a C1 was removed
C21_Witness ==
    /\ life = "alive"
    /\ hist.localIgnored
    /\ Len(udpTransports) < Len(config.localAddrs)


(***************************************************************************)
(* Specification of the configuration: the STUN setters and update, called *)
(* before any child has signalled, with two servers to choose from for     *)
(* each service.                                                           *)
(***************************************************************************)
CfgBindAddrs == StunBindAddrs \cup { TA("74.125.9.1", 3478) }
CfgRelayAddrs == StunRelayAddrs \cup { TA("74.125.9.2", 3478) }

CfgCall == life = "alive" /\ calls < MaxCfgCalls /\ calls' = calls + 1

CfgSetStunBindService ==
    /\ CfgCall
    /\ \E addr \in CfgBindAddrs \ {pending.stunBindAddr} :
           pending' = [pending EXCEPT !.stunBindAddr = addr]
    /\ UNCHANGED <<setterFrame, useFlags>>

CfgSetStunRelayUdpService ==
    /\ CfgCall
    /\ \E addr \in CfgRelayAddrs, user \in RelayUsers :
           /\ <<addr, user>> # <<pending.stunRelayUdpAddr, pending.stunRelayUdpUser>>
           /\ pending' = [pending EXCEPT !.stunRelayUdpAddr = addr,
                                         !.stunRelayUdpUser = user]
    /\ UNCHANGED <<setterFrame, useFlags>>

CfgSetStunRelayTcpService ==
    /\ CfgCall
    /\ \E addr \in CfgRelayAddrs, user \in RelayUsers :
           /\ <<addr, user>> # <<pending.stunRelayTcpAddr, pending.stunRelayTcpUser>>
           /\ pending' = [pending EXCEPT !.stunRelayTcpAddr = addr,
                                         !.stunRelayTcpUser = user]
    /\ UNCHANGED <<setterFrame, useFlags>>

CfgUpdate ==
    /\ CfgCall
    /\ Commit(update(Cur, {}, {}))
    /\ UNCHANGED <<id, pending, useFlags, freedSocks, life, p_in, p_out>>

CfgNext ==
    \/ CfgSetStunBindService
    \/ CfgSetStunRelayUdpService
    \/ CfgSetStunRelayTcpService
    \/ CfgUpdate

CfgSpec == Init /\ [][CfgNext]_vars

\* the STUN coordinate fields of a config
StunAddrFields == {"stunBindAddr", "stunRelayUdpAddr", "stunRelayTcpAddr"}
StunUserFields == {"stunRelayUdpUser", "stunRelayTcpUser"}

\* C22: once an update has made a STUN coordinate field of the active config
\* valid, no later update changes the value of that field.
C22_StunWriteOnce ==
    [][life' = "alive" =>
         /\ \A f \in StunAddrFields : isValid(config[f]) => config'[f] = config[f]
         /\ \A f \in StunUserFields : config[f] # "" => config'[f] = config[f]]_vars


\* C23: the TCP-TURN transport is created at most once in the life of the engine,
\* also after the first one was destroyed by tt_error or tt_stopped.
C23_TcpTurnOnce == hist.tcpCreated <= 1


\* the services a C1 on address ip is to be given under active config cfg
BindExpected(ip, cfg) == ~isIPv6(ip) /\ useStunBind /\ isValid(cfg.stunBindAddr)
RelayExpected(ip, cfg) ==
    /\ ~isIPv6(ip)
    /\ useStunRelayUdp
    /\ isValid(cfg.stunRelayUdpAddr)
    /\ cfg.stunRelayUdpUser # ""

\* a C1 on an IPv6 address has no service and no external address, stunStart was
\* never invoked on it, and once started both its phases are finished
IPv6Bare(lt) ==
    /\ ~isValid(lt.stunBindService)
    /\ ~isValid(lt.stunRelayService)
    /\ lt.extAddr = ""
    /\ lt.stunStartCalls = 0
    /\ ~lt.stunAlive /\ ~lt.turnAlive
    /\ lt.started => (lt.stun_finished /\ lt.turn_finished)

\* C24: a C1 created by update has a STUN-bind service iff its address is not
\* IPv6, use_stun_bind is on and the active bind address is valid, and a
\* STUN-relay service iff its address is not IPv6, use_stun_relay_udp is on, the
\* relay address is valid and the relay user is non-empty; a C1 on an IPv6
\* address never has a service, an external address or a stunStart call and is
\* stun_finished and turn_finished once started.
C24_ServicesAttached ==
    /\ [](\A k \in 1..Len(udpTransports) :
              isIPv6(udpTransports[k].addr) => IPv6Bare(udpTransports[k]))
    /\ [][life' = "alive" =>
            \A k \in (Len(udpTransports) + 1)..Len(udpTransports') :
                /\ isValid(udpTransports'[k].stunBindService)
                       <=> BindExpected(udpTransports'[k].addr, config')
                /\ isValid(udpTransports'[k].stunRelayService)
                       <=> RelayExpected(udpTransports'[k].addr, config')]_vars

\* a C1 on an IPv6 address has started while a STUN-bind service and an external
\* address for it were configured
C24_Witness ==
    /\ \E k \in 1..Len(udpTransports) :
           isIPv6(udpTransports[k].addr) /\ udpTransports[k].started
    /\ isValid(config.stunBindAddr)
    /\ useStunBind
    /\ \E n \in 1..Len(config.extAddrs) : isIPv6(config.extAddrs[n].base)


\* C25: a call of addLocalPeerReflexiveCandidate violates no assertion, appends
\* exactly one PeerReflexive candidate that has the transport and path of a live
\* Host candidate and an addr without zone id, emits candidateAdded for it, and
\* changes neither gatheringComplete nor any other candidate; this also when
\* use_local is off and no Host candidate exists.
C25_PeerReflexiveAdded ==
    [][AddLocalPeerReflexiveCandidate =>
         /\ life' = "alive"
         /\ Events("Q_ASSERT")' = Events("Q_ASSERT")
         /\ Len(localCandidates') = Len(localCandidates) + 1
         /\ SubSeq(localCandidates', 1, Len(localCandidates)) = localCandidates
         /\ LET c == localCandidates'[Len(localCandidates')]
            IN /\ c.type = "prflx"
               /\ c.addr.scope = ""
               /\ \E n \in 1..Len(localCandidates) :
                      /\ localCandidates[n].type = "host"
                      /\ localCandidates[n].iceTransport = c.iceTransport
                      /\ localCandidates[n].path = c.path
               /\ trace' = Append(trace, [e |-> "candidateAdded", c |-> c])
         /\ gatheringComplete' = gatheringComplete]_vars


\* the candidate ids that are keys of the channel-peer map
ChannelKeys == {e.id : e \in channelPeers}

\* the candidateRemoved events for the candidate with this id
RemovedIds(cid) == {i \in Events("candidateRemoved") : trace[i].c.id = cid}

\* C26: flagPathAsLowOverhead(id, peer) adds peer to the set of candidate id and
\* calls addChannelPeer(peer) on that candidate's transport only the first time
\* for that (candidate, peer); a peer leaves the set only when the candidate is
\* removed; every key of the channel-peer map is the id of a live candidate, so
\* a new candidate that reuses a freed id starts with an empty peer set.
C26_ChannelPeers ==
    /\ [](ChannelKeys \subseteq LiveIds)
    /\ [][life' = "alive" =>
           /\ \* a call of addChannelPeer is the first for (candidate, peer)
              \/ hist'.channelCalls = hist.channelCalls
              \/ \E c \in Live, peer \in ChannelPeerAddrs :
                     /\ peer \notin peersOf(channelPeers, c.id)
                     /\ hist'.channelCalls = Append(hist.channelCalls,
                            [id |-> c.id, peer |-> peer, iceTransport |-> c.iceTransport])
           /\ \* a flagged peer is in the set afterwards, and newly so only with the call
              \A cid \in LiveIds' : \A peer \in peersOf(channelPeers', cid) :
                  \/ peer \in peersOf(channelPeers, cid)
                  \/ /\ FlagPathAsLowOverhead
                     /\ Len(hist'.channelCalls) = Len(hist.channelCalls) + 1
                     /\ hist'.channelCalls[Len(hist'.channelCalls)].id = cid
                     /\ hist'.channelCalls[Len(hist'.channelCalls)].peer = peer
           /\ (FlagPathAsLowOverhead /\ Failed("flagPathAsLowOverhead")' = {}) =>
                  \E cid \in LiveIds, peer \in ChannelPeerAddrs :
                      /\ peersOf(channelPeers', cid) = peersOf(channelPeers, cid) \cup {peer}
                      /\ \A o \in LiveIds \ {cid} :
                             peersOf(channelPeers', o) = peersOf(channelPeers, o)
                      /\ localCandidates' = localCandidates
           /\ \* peers stay while the candidate is not removed
              \A cid \in LiveIds :
                  RemovedIds(cid)' = RemovedIds(cid) =>
                      peersOf(channelPeers, cid) \subseteq peersOf(channelPeers', cid)
           /\ \* a candidate added in this step starts with no peer
              \A n \in 1..Len(localCandidates') :
                  (\A m \in 1..Len(localCandidates) :
                       localCandidates[m] # localCandidates'[n]) =>
                      peersOf(channelPeers', localCandidates'[n].id) = {}]_vars

\* a candidate was flagged, was removed with its transport, and a later candidate
\* holds its id with an empty peer set
C26_Witness ==
    /\ life = "alive"
    /\ \E k \in 1..Len(hist.channelCalls), c \in Live :
           /\ hist.channelCalls[k].id = c.id
           /\ hist.channelCalls[k].iceTransport # c.iceTransport
           /\ RemovedIds(c.id) # {}
           /\ peersOf(channelPeers, c.id) = {}


(***************************************************************************)
(* storeLocalNotReduntantCandidate applied to candidate lists              *)
(***************************************************************************)
\* a candidate of component 1 on the transport of local address la
StoreCand(type, addr, base, priority, la) ==
    [id |-> 0, addr |-> addr, base |-> base,
     related |-> IF type = "relay" THEN TA("203.0.113.9", 40001) ELSE base,
     type |-> type, priority |-> priority, componentId |-> 1, network |-> la.network,
     iceTransport |-> UdpRef(la.addr), path |-> IF type = "relay" THEN 1 ELSE 0]

\* candidates the engine forms for the local addresses LA_A (index 0) and LA_V
\* (index 1): Host, ServerReflexive behind one NAT mapping, ServerReflexive
\* without NAT (addr = base), Relayed, and PeerReflexive candidates whose addr is
\* the NAT mapping and whose priority the caller chose
StorePool ==
    LET a == TA(LA_A.addr, localPort(FALSE))
        v == TA(LA_V.addr, localPort(FALSE))
        m == TA("203.0.113.9", 40001)
        srflxPrio == choose_default_priority("srflx", 65535, FALSE, 1)
    IN { StoreCand("host", a, a, choose_default_priority("host", 65535, FALSE, 1), LA_A),
         StoreCand("host", v, v, choose_default_priority("host", 65534, TRUE, 1), LA_V),
         StoreCand("srflx", m, a, srflxPrio, LA_A),
         StoreCand("srflx", m, v, choose_default_priority("srflx", 65534, TRUE, 1), LA_V),
         StoreCand("srflx", a, a, srflxPrio, LA_A),
         StoreCand("relay", RelayedUdp, RelayedUdp,
                   choose_default_priority("relay", 65535, FALSE, 1), LA_A),
         StoreCand("prflx", m, a, srflxPrio, LA_A),
         StoreCand("prflx", m, a, srflxPrio - 1, LA_A),
         StoreCand("prflx", m, a, srflxPrio + 1, LA_A) }

\* lists of at most two candidates, with the ids getId gave them
StoreLists ==
    {<<>>} \cup {<<x>> : x \in StorePool}
           \cup {<<x, [y EXCEPT !.id = 1]>> : x \in StorePool, y \in StorePool}

StoreInit ==
    /\ id = 1
    /\ pending = EmptyConfig
    /\ config = EmptyConfig
    /\ useLocal = TRUE
    /\ useStunBind = TRUE
    /\ useStunRelayUdp = TRUE
    /\ useStunRelayTcp = TRUE
    /\ stopping = FALSE
    /\ udpTransports = <<>>
    /\ tcpTurn = NoTcpTurn
    /\ localCandidates \in StoreLists
    /\ localFinished = FALSE
    /\ gatheringComplete = FALSE
    /\ deferred = <<>>
    /\ doExtTimer = 0
    /\ borrowedSocks = {}
    /\ ownSocks = {}
    /\ returnedSocks = [ip \in LocalIPs |-> 0]
    /\ freedSocks = {}
    /\ life = "alive"
    /\ calls = 0
    /\ trace = <<>>
    /\ channelPeers = {}
    /\ hist = NoHist
    /\ p_in \in {[x EXCEPT !.id = getId(localCandidates)] : x \in StorePool}
    /\ p_out = <<>>

\* one call storeLocalNotReduntantCandidate(p_in); p_out keeps the list before it
StoreApply ==
    /\ p_out = <<>>
    /\ Commit(storeLocalNotReduntantCandidate(Cur, p_in))
    /\ p_out' = <<localCandidates>>
    /\ UNCHANGED <<id, pending, useLocal, useStunBind, useStunRelayUdp, useStunRelayTcp,
                   freedSocks, life, calls, p_in>>

StoreNext == StoreApply

StoreSpec == StoreInit /\ [][StoreNext]_vars

\* c' dominates c: equal addr, equal base and a priority not below that of c
Dominates(cc, c) ==
    /\ cc.addr.ip = c.addr.ip /\ cc.addr.port = c.addr.port
    /\ cc.base.ip = c.base.ip /\ cc.base.port = c.base.port
    /\ cc.priority >= c.priority

\* C27: storeLocalNotReduntantCandidate(c) inserts nothing, emits nothing and
\* leaves the list unchanged if a live candidate has the addr and base of c and a
\* priority not below that of c; otherwise it appends c and emits
\* candidateAdded(c); no existing candidate is removed or replaced; two
\* ServerReflexive candidates with equal addr and different base are both kept.
C27_StoreNotRedundant ==
    p_out # <<>> =>
        LET before == p_out[1]
            c == p_in
        IN /\ IF \E n \in 1..Len(before) : Dominates(before[n], c)
              THEN localCandidates = before /\ trace = <<>>
              ELSE /\ localCandidates = Append(before, c)
                   /\ trace = <<[e |-> "candidateAdded", c |-> c]>>
           /\ Len(localCandidates) >= Len(before)
           /\ SubSeq(localCandidates, 1, Len(before)) = before
           /\ (/\ c.type = "srflx"
               /\ \E n \in 1..Len(before) :
                      /\ before[n].type = "srflx"
                      /\ before[n].addr = c.addr
                      /\ before[n].base # c.base
               /\ \A n \in 1..Len(before) : before[n].base # c.base)
              => /\ Len(localCandidates) = Len(before) + 1
                 /\ localCandidates[Len(localCandidates)] = c

\* a ServerReflexive candidate was stored next to one with its addr and another base
C27_Witness ==
    /\ p_out # <<>>
    /\ Len(localCandidates) = 2
    /\ localCandidates[1].type = "srflx" /\ localCandidates[2].type = "srflx"
    /\ localCandidates[1].addr = localCandidates[2].addr
    /\ localCandidates[1].base # localCandidates[2].base
    /\ localCandidates[2] = p_in
    /\ localCandidates[1].priority >= localCandidates[2].priority


\* what an error of one phase of transport k leaves of the state: flag and alive
\* name the fields of the phase that failed
PhaseErrorEffect(k, flag, alive) ==
    /\ udpTransports' = [udpTransports EXCEPT ![k][flag] = TRUE, ![k][alive] = FALSE]
    /\ localCandidates' = localCandidates
    /\ Events("candidateRemoved")' = Events("candidateRemoved")
    /\ \/ trace' = trace /\ gatheringComplete' = gatheringComplete
       \/ /\ trace' = Append(trace, [e |-> "gatheringComplete", c |-> NoCand])
          /\ ~gatheringComplete /\ gatheringComplete'
    /\ UNCHANGED <<config, pending, stopping, tcpTurn, localFinished, channelPeers,
                   deferred, doExtTimer, life, useFlags>>

\* C28: on error(Stun) of a C1 only its stun_finished becomes true and on
\* error(Turn) only its turn_finished: the C1 stays in the transport list, its
\* candidates stay live, no candidateRemoved is emitted, the flag of the other
\* phase and all other C1s are unchanged; the only further effect is a
\* gatheringComplete evaluation.
C28_PhaseErrorFrame ==
    [][/\ LtBindingError =>
            \E k \in 1..Len(udpTransports) :
                udpTransports[k].stunAlive
                /\ PhaseErrorEffect(k, "stun_finished", "stunAlive")
       /\ LtTurnError =>
            \E k \in 1..Len(udpTransports) :
                udpTransports[k].turnAlive
                /\ PhaseErrorEffect(k, "turn_finished", "turnAlive")]_vars

\* the Binding of one of two C1s failed while its allocation is still awaited,
\* and its Host candidate is live
C28_Witness ==
    /\ life = "alive"
    /\ Len(udpTransports) = 2
    /\ \E k \in 1..2 :
           /\ udpTransports[k].stun_finished /\ ~udpTransports[k].turn_finished
           /\ udpTransports[k].stunStartCalls = 1
           /\ ~isValid(udpTransports[k].srflx) /\ ~udpTransports[k].stunAlive
           /\ udpTransports[k].turnAlive
           /\ \E c \in Live : c.type = "host" /\ c.iceTransport = UdpRef(udpTransports[k].addr)


\* the C1 has a STUN-bind service or a STUN-relay service configured
HasService(lt) == isValid(lt.stunBindService) \/ isValid(lt.stunRelayService)

\* C29: on a C1's started event stunStart() is invoked on it, once, if and only
\* if the C1 has a STUN-bind or a STUN-relay service configured; otherwise both
\* stun_finished and turn_finished are set. In particular a C1 with only a
\* STUN-relay service (use_stun_bind off, use_stun_relay_udp on) has stunStart()
\* invoked and is not marked turn_finished before TURN answers.
C29_StunStartIffService ==
    /\ [][LtStarted =>
           \A k \in 1..Len(udpTransports) :
               (/\ Len(udpTransports') >= k
                /\ udpTransports'[k].addr = udpTransports[k].addr
                /\ ~udpTransports[k].started /\ udpTransports'[k].started) =>
                   IF HasService(udpTransports[k])
                   THEN udpTransports'[k].stunStartCalls = 1
                   ELSE /\ udpTransports'[k].stunStartCalls = 0
                        /\ udpTransports'[k].stun_finished
                        /\ udpTransports'[k].turn_finished]_vars
    /\ [](\A k \in 1..Len(udpTransports) :
             /\ udpTransports[k].stunStartCalls <= 1
             /\ ~udpTransports[k].started => udpTransports[k].stunStartCalls = 0
             /\ (/\ isValid(udpTransports[k].stunRelayService)
                 /\ udpTransports[k].turn_finished)
                    => udpTransports[k].stunStartCalls = 1)


\* the deferred calls that are still queued
Queued == {deferred[n] : n \in 1..Len(deferred)}

\* C30: if an update leaves the engine with no C1 transport, localFinished is
\* emitted as a consequence of that update, before any gatheringComplete;
\* localFinished is emitted at most once over the life of the component.
C30_LocalFinishedNoTransport ==
    /\ [](Cardinality(Events("localFinished")) <= 1)
    /\ [][(Update /\ life' = "alive" /\ udpTransports' = <<>>) =>
             /\ Events("localFinished")' # {} \/ "localFinished" \in Queued'
             /\ "localFinished" \in Queued' => Events("gatheringComplete")' = {}]_vars
    /\ [][(RunDeferred /\ Events("localFinished")' # Events("localFinished")) =>
             Events("gatheringComplete") = {}]_vars


(***************************************************************************)
(* Specification for the liveness of stop: no destruction, the event loop  *)
(* runs the deferred calls                                                 *)
(***************************************************************************)
StopNext ==
    \/ SetLocalAddresses
    \/ SetExternalAddresses
    \/ SetStunBindService
    \/ SetStunRelayUdpService
    \/ SetStunRelayTcpService
    \/ SetUseLocal
    \/ SetUseStunBind
    \/ SetUseStunRelayUdp
    \/ SetUseStunRelayTcp
    \/ Update
    \/ Stop
    \/ RunDeferred
    \/ RunDoExt
    \/ LtStarted
    \/ LtBindingSuccess
    \/ LtBindingError
    \/ LtTurnActivated
    \/ LtTurnError
    \/ LtSocketError
    \/ LtStopped
    \/ TtStarted
    \/ TtStopped
    \/ TtError

StopFairness == WF_vars(RunDeferred) /\ WF_vars(RunDoExt)

StopSpec == Init /\ [][StopNext]_vars /\ StopFairness

\* the engine holds no C1 and no TCP-TURN transport
NoChildren == udpTransports = <<>> /\ ~tcpTurn.exists

\* C31: after stop(), if every child transport eventually leaves (by stopped or
\* by an error), stopped is eventually emitted and the stopping flag returns to
\* false, also when the last child leaves through an error.
C31_StopCompletes ==
    (<>[]NoChildren) => (stopping ~> ~stopping)


\* the step leaves everything but the queues of deferred work as it is
NoEffect ==
    /\ trace' = trace
    /\ UNCHANGED <<config, pending, stopping, udpTransports, tcpTurn, localCandidates,
                   localFinished, gatheringComplete, channelPeers, life, useFlags>>

\* C32: every action that update deferred (the external-address emission, the
\* localFinished, the gatheringComplete evaluation) has no effect and emits no
\* event if stop() was called before it runs.
C32_DeferredDroppedWhenStopping ==
    [][(/\ stopping
        /\ \/ RunDoExt
           \/ RunDeferred /\ Head(deferred) # "postStop") => NoEffect]_vars


\* the step erases the last C1 through an error, the engine has no TCP-TURN
\* transport, and no candidate was ever emitted
LastTransportDies ==
    /\ LtSocketError
    /\ udpTransports' = <<>> /\ ~tcpTurn'.exists
    /\ Events("candidateAdded")' = {}

Fn(body) == <<"call">> \o body \o <<"end">>

storeLocalNotReduntantCandidate_ops(in) ==
    Fn(<<"access">> \o (IF in.redundant THEN <<>> ELSE <<"access", "emit">>))

ensureExt_ops(in) ==
    Fn(<<"access">> \o (IF in.ext
                        THEN <<"access">> \o storeLocalNotReduntantCandidate_ops(in)
                        ELSE <<>>))

tryGatheringComplete_ops(in) ==
    Fn(<<"access">> \o (IF in.finished THEN <<"access", "emit">> ELSE <<>>))

lt_started_ops(in) ==
    Fn(<<"access">>
       \o (IF in.local
           THEN <<"access", "emit", "check">> \o ensureExt_ops(in) \o <<"check">>
           ELSE <<>>)
       \o <<"access">>
       \o (IF in.stun THEN <<"access", "check">> ELSE <<"access">>)
       \o <<"access">>
       \o (IF in.finished THEN <<"access", "emit", "check">> ELSE <<>>)
       \o tryGatheringComplete_ops(in))

lt_addressesChanged_ops(in) ==
    Fn(<<"access">>
       \o (IF in.stun
           THEN <<"access">>
                \o (IF in.ext THEN ensureExt_ops(in) \o <<"check">> ELSE <<>>)
                \o <<"access">>
                \o storeLocalNotReduntantCandidate_ops(in)
           ELSE <<"access">>)
       \o <<"access">>
       \o (IF in.relay
           THEN <<"access">> \o storeLocalNotReduntantCandidate_ops(in)
           ELSE <<"access">>)
       \o <<"check">>
       \o tryGatheringComplete_ops(in))

tt_started_ops(in) ==
    Fn(<<"access", "emit">> \o tryGatheringComplete_ops(in))

\* the loop body runs once per candidate of the transport: a Host candidate if
\* in.local, a ServerReflexive one if in.stun, a Relayed one if in.relay
removeLocalCandidates_ops(in) ==
    LET once == <<"access", "emit", "check">>
    IN Fn((IF in.local THEN once ELSE <<>>) \o (IF in.stun THEN once ELSE <<>>)
          \o (IF in.relay THEN once ELSE <<>>) \o <<"access">>)

\* the stopped handler of a C1: eraseLocalTransport, then tryStopped
lt_stopped_ops(in) ==
    Fn(Fn(<<"access">> \o removeLocalCandidates_ops(in) \o <<"check", "access">>)
       \o <<"check">>
       \o Fn(<<"access">> \o (IF in.finished THEN <<"access", "emit">> ELSE <<>>)))

ReentInputs == [handler : {"lt_started", "lt_addressesChanged", "tt_started", "lt_stopped"},
                local : BOOLEAN, ext : BOOLEAN, redundant : BOOLEAN, stun : BOOLEAN,
                relay : BOOLEAN, finished : BOOLEAN]

Program(in) ==
    IF in.handler = "lt_started" THEN lt_started_ops(in)
    ELSE IF in.handler = "lt_addressesChanged" THEN lt_addressesChanged_ops(in)
    ELSE IF in.handler = "tt_started" THEN tt_started_ops(in)
    ELSE lt_stopped_ops(in)

\* position of the "end" of the function that position pc is in; depth counts
\* the functions opened since pc
RECURSIVE ReturnTo(_, _, _)
ReturnTo(prog, pc, depth) ==
    IF prog[pc] = "end"
    THEN IF depth = 0 THEN pc ELSE ReturnTo(prog, pc + 1, depth - 1)
    ELSE IF prog[pc] = "call" THEN ReturnTo(prog, pc + 1, depth + 1)
         ELSE ReturnTo(prog, pc + 1, depth)

\* p_in: the handler and its branches; p_out: the position in the handler,
\* whether Private still exists, whether freed memory was used
ReentInit ==
    /\ EngineInit
    /\ p_in \in ReentInputs
    /\ p_out = [pc |-> 1, alive |-> TRUE, useAfterFree |-> FALSE]

\* the handler is about to do op; nothing is modelled past a use of freed memory
ReentAt(op) ==
    /\ p_out.pc <= Len(Program(p_in)) /\ ~p_out.useAfterFree
    /\ Program(p_in)[p_out.pc] = op

ReentAccess ==
    /\ ReentAt("access")
    /\ p_out' = [p_out EXCEPT !.pc = @ + 1, !.useAfterFree = ~p_out.alive]
    /\ UNCHANGED <<p_in, engineVars>>

\* emit q->...: q is a member of Private; the consumer's slot runs synchronously
ReentEmit ==
    /\ ReentAt("emit")
    /\ \E deleted \in BOOLEAN :
           p_out' = [p_out EXCEPT !.pc = @ + 1, !.useAfterFree = ~p_out.alive,
                                  !.alive = @ /\ ~deleted]
    /\ UNCHANGED <<p_in, engineVars>>

ReentCheck ==
    /\ ReentAt("check")
    /\ p_out' = [p_out EXCEPT !.pc = IF p_out.alive THEN @ + 1
                                     ELSE ReturnTo(Program(p_in), p_out.pc, 0)]
    /\ UNCHANGED <<p_in, engineVars>>

ReentCallReturn ==
    /\ ReentAt("call") \/ ReentAt("end")
    /\ p_out' = [p_out EXCEPT !.pc = @ + 1]
    /\ UNCHANGED <<p_in, engineVars>>

ReentNext == ReentAccess \/ ReentEmit \/ ReentCheck \/ ReentCallReturn

ReentSpec == ReentInit /\ [][ReentNext]_vars

\* C34: if the consumer destroys the engine inside the handling of an emitted
\* event, the handler that emitted it reads or writes no engine or transport
\* state afterwards without first re-checking the liveness token; this for the
\* emissions in lt_started, lt_addressesChanged, storeLocalNotReduntantCandidate,
\* tt_started and removeLocalCandidates.
C34_NoAccessAfterDestroy == ~p_out.useAfterFree


\* C35: peerReflexivePriority(t, path) is the priority formula with type_pref
\* 110 and local_pref = 65535 - addr_index, where for a C1 t addr_index is the
\* position of t in the engine's ordered local-address list (the index of its
\* Host and ServerReflexive priority) plus 512 when path = 1, and for the
\* TCP-TURN transport addr_index is 1024; in every reachable state, also after
\* an earlier C1 of the list has been removed.
C35_PeerReflexivePriority ==
    life = "alive" =>
        /\ \A k \in 1..Len(udpTransports), path \in {0, 1} :
               peerReflexivePriority(Cur, UdpRef(udpTransports[k].addr), path)
                   = SpecPriority(110,
                                  65535 - (findLocalAddr(config, udpTransports[k].addr)
                                           + (IF path = 1 THEN 512 ELSE 0)),
                                  id)
        /\ tcpTurn.exists =>
               peerReflexivePriority(Cur, TcpRef, 0) = SpecPriority(110, 65535 - 1024, id)


\* the transports the engine has created so far, gone ones included
CreatedTransports ==
    {UdpRef(config.localAddrs[n].addr) : n \in 1..Len(config.localAddrs)}
        \cup (IF hist.tcpCreated > 0 THEN {TcpRef} ELSE {})

\* the type_pref choose_default_priority passes on for a type
PassedTypePref(type, isVpn) == choose_default_priority(type, 0, isVpn, 256) \div 16777216

\* C36: every call of calc_priority the engine's operations can make (Host,
\* ServerReflexive, Relayed, external-address and TCP-TURN emission, and
\* peerReflexivePriority for any transport argument and path) satisfies its
\* three assertions.
C36_PriorityAssertions ==
    life = "alive" =>
        /\ \A k \in 1..Len(udpTransports), type \in {"host", "srflx", "relay"} :
               calc_priority_asserts(PassedTypePref(type, udpTransports[k].isVpn),
                   65535 - findLocalAddr(config, udpTransports[k].addr), id)
        /\ calc_priority_asserts(PassedTypePref("relay", FALSE), 65535 - 1024, id)
        /\ \A t \in CreatedTransports, path \in {0, 1} :
               calc_priority_asserts(PassedTypePref("prflx", FALSE),
                   65535 - peerReflexiveAddrAt(Cur, t, path), id)


\* the largest value of a signed 32-bit int
IntMax == 2147483647

\* C37: for all inputs inside the asserted ranges the result of calc_priority
\* lies in [0, 2^31 - 1], so the int it is computed in does not overflow, and
\* (type_pref, local_pref, component_id) -> priority is injective: the three
\* fields never carry into each other.
C37_NoOverflowInjective ==
    (p_out # <<>>
     /\ calc_priority_asserts(p_in.typePref, p_in.localPref, p_in.componentId)) =>
        /\ p_out[1] >= 0 /\ p_out[1] <= IntMax
        /\ 16777216 * p_in.typePref <= IntMax
        /\ 16777216 * p_in.typePref + 256 * p_in.localPref <= IntMax
        /\ \A tp \in TypePrefs, lp \in LocalPrefs, ci \in PrioComponentIds :
               (calc_priority_asserts(tp, lp, ci) /\ calc_priority(tp, lp, ci) = p_out[1])
                   => (tp = p_in.typePref /\ lp = p_in.localPref /\ ci = p_in.componentId)
        /\ p_out[1] \div 16777216 = p_in.typePref
        /\ (p_out[1] % 16777216) \div 256 = p_in.localPref
        /\ 256 - (p_out[1] % 256) = p_in.componentId

\* the largest input of every field gives the largest priority, below 2^31
C37_Witness ==
    /\ p_out # <<>>
    /\ p_in.typePref = 126 /\ p_in.localPref = 65535 /\ p_in.componentId = 1
    /\ p_out[1] = 2130706431 /\ p_out[1] < IntMax
    /\ calc_priority(126, 65535, 2) = p_out[1] - 1


(***************************************************************************)
(* WebRTCDataChannel: the receive side.  A channel is the record of its    *)
(* members datagrams (payloads in arrival order), tail (the rest of the    *)
(* datagram a stream read has started) and _bytesAvailable; a payload is a *)
(* sequence of bytes                                                       *)
(***************************************************************************)
MaxArrivals == 3
MaxReads == 4
MaxReadSize == 4

NewChannel == [datagrams |-> <<>>, tail |-> <<>>, _bytesAvailable |-> 0]

\* the sum of the sizes of the datagrams of a queue
RECURSIVE QueuedBytes(_)
QueuedBytes(q) == IF q = <<>> THEN 0 ELSE Len(Head(q)) + QueuedBytes(Tail(q))

\* onIncomingData(data, ppid) with a ppid other than PPID_DCEP
onIncomingData(ch, data) ==
    [ch EXCEPT !.datagrams = Append(@, data), !._bytesAvailable = @ + Len(data)]

\* readDatagram(maxSize): the channel after the call and the datagram returned
\* (the empty datagram when none is queued)
readDatagram(ch) ==
    IF Len(ch.datagrams) > 0
    THEN [ch |-> [ch EXCEPT !.datagrams = Tail(@),
                            !._bytesAvailable = @ - Len(Head(ch.datagrams))],
          dg |-> Head(ch.datagrams)]
    ELSE [ch |-> ch, dg |-> <<>>]

\* bytesAvailable(), Connection::bytesAvailable() being 0 (nothing is buffered
\* by the base class)
bytesAvailable(ch) == Len(ch.tail) + ch._bytesAvailable

\* the do ... while of readDataInternal from one evaluation of its body on;
\* buf is the caller's buffer, sz the bytes still wanted, actualSz the bytes
\* counted so far
RECURSIVE readDataLoop(_, _, _, _)
readDataLoop(ch, buf, sz, actualSz) ==
    LET take == ch.tail = <<>> /\ ch.datagrams # <<>>
        tail == IF take THEN Head(ch.datagrams) ELSE ch.tail
        datagrams == IF take THEN Tail(ch.datagrams) ELSE ch.datagrams
        dataSz == IF sz < Len(tail) THEN sz ELSE Len(tail)
        copied == [i \in 1..Len(buf) |->
                       IF i > actualSz /\ i <= actualSz + dataSz
                       THEN tail[i - actualSz] ELSE buf[i]]
    IN  IF dataSz = Len(tail)
        THEN LET cleared == [ch EXCEPT !.tail = <<>>, !.datagrams = datagrams]
             IN  IF sz - dataSz > 0 /\ datagrams # <<>>
                 THEN readDataLoop(cleared, copied, sz - dataSz, actualSz + dataSz)
                 ELSE [ch |-> [cleared EXCEPT !._bytesAvailable = @ - (actualSz + dataSz)],
                       buf |-> copied, ret |-> actualSz + dataSz]
        ELSE \* tail.remove(0, dataSz) leaves a non-empty tail: break
             [ch |-> [ch EXCEPT !.tail = SubSeq(tail, dataSz + 1, Len(tail)),
                                !.datagrams = datagrams,
                                !._bytesAvailable = @ - actualSz],
              buf |-> copied, ret |-> actualSz]

\* readDataInternal(buf, sz) on a buffer of sz bytes (0 marks a byte of the
\* buffer that was not written)
readDataInternal(ch, sz) == readDataLoop(ch, [i \in 1..sz |-> 0], sz, 0)

\* the payload of the k-th datagram received: one to three bytes that no other
\* datagram carries
Payloads(k) == { [i \in 1..n |-> 10 * k + i] : n \in 1..3 }

\* p_in is the channel; p_out records what was received and what the reader
\* was given: arrived (the payloads in arrival order), delivered (the bytes the
\* stream reads returned, in order), datagramsRead (what readDatagram returned),
\* and of the last stream read its size n, its return value ret, the bytes it
\* removed from tail and queue, and the size front of the datagram it found
\* pending
DcInit ==
    /\ EngineInit
    /\ p_in = NewChannel
    /\ p_out = [arrived |-> <<>>, delivered |-> <<>>, datagramsRead |-> <<>>,
                reads |-> 0, n |-> 0, ret |-> 0, removed |-> 0, front |-> 0]

DcIncoming ==
    /\ Len(p_out.arrived) < MaxArrivals
    /\ \E data \in Payloads(Len(p_out.arrived) + 1) :
           /\ p_in' = onIncomingData(p_in, data)
           /\ p_out' = [p_out EXCEPT !.arrived = Append(@, data)]
    /\ UNCHANGED engineVars

DcReadDatagram ==
    /\ p_out.reads < MaxReads
    /\ LET r == readDatagram(p_in)
       IN  /\ p_in' = r.ch
           /\ p_out' = [p_out EXCEPT !.reads = @ + 1,
                                     !.datagramsRead = Append(@, r.dg)]
    /\ UNCHANGED engineVars

DcReadData ==
    /\ p_out.reads < MaxReads
    /\ \E sz \in 1..MaxReadSize :
           LET r == readDataInternal(p_in, sz)
               undelivered(ch) == Len(ch.tail) + QueuedBytes(ch.datagrams)
           IN  /\ p_in' = r.ch
               /\ p_out' = [p_out EXCEPT
                               !.reads = @ + 1,
                               !.delivered = @ \o SubSeq(r.buf, 1, r.ret),
                               !.n = sz, !.ret = r.ret,
                               !.removed = undelivered(p_in) - undelivered(r.ch),
                               !.front = IF p_in.tail # <<>> THEN Len(p_in.tail)
                                         ELSE IF p_in.datagrams # <<>>
                                              THEN Len(Head(p_in.datagrams)) ELSE 0]
    /\ UNCHANGED engineVars

DcNext == DcIncoming \/ DcReadDatagram \/ DcReadData

DcSpec == DcInit /\ [][DcNext]_vars

\* the concatenation of the payloads of a sequence of datagrams
RECURSIVE Flatten(_)
Flatten(q) == IF q = <<>> THEN <<>> ELSE Head(q) \o Flatten(Tail(q))

IsPrefix(a, b) == Len(a) <= Len(b) /\ SubSeq(b, 1, Len(a)) = a

\* C38: stream reads are lossless and ordered: after any sequence of
\* onIncomingData (non-DCEP) and readDataInternal(buf, n) calls the bytes
\* returned, concatenated, are a prefix of the payloads received, concatenated;
\* the return value of each call is the number of bytes it removed from the tail
\* and the datagram queue; a read of n bytes, n smaller than the pending
\* datagram, returns n.
C38_StreamReadsLossless ==
    (p_out.datagramsRead = <<>> /\ p_out.n > 0) =>
        /\ IsPrefix(p_out.delivered, Flatten(p_out.arrived))
        /\ p_out.ret = p_out.removed
        /\ p_out.n < p_out.front => p_out.ret = p_out.n


\* C39: byte accounting: after any interleaving of onIncomingData (non-DCEP),
\* readDatagram and readDataInternal, tail.size() + _bytesAvailable is the
\* number of received bytes not yet given to the reader (those of tail and of
\* the queued datagrams), _bytesAvailable is never negative, and readDatagram
\* returns the datagrams in arrival order.
RECURSIVE IsSubseq(_, _)
IsSubseq(a, b) ==
    IF a = <<>> THEN TRUE
    ELSE IF b = <<>> THEN FALSE
    ELSE IF Head(a) = Head(b) THEN IsSubseq(Tail(a), Tail(b))
    ELSE IsSubseq(a, Tail(b))

C39_ByteAccounting ==
    /\ bytesAvailable(p_in) = Len(p_in.tail) + QueuedBytes(p_in.datagrams)
    /\ p_in._bytesAvailable >= 0
    /\ IsSubseq(SelectSeq(p_out.datagramsRead, LAMBDA d : d # <<>>), p_out.arrived)


(***************************************************************************)
(* WebRTCDataChannel: DATA_CHANNEL_OPEN.  A message is a sequence of bytes *)
(* (byte k of the C++ array is element k + 1), a QString a sequence of     *)
(* code points                                                             *)
(***************************************************************************)
DCEP_DATA_CHANNEL_OPEN == 3

\* QString::toUtf8 for code points below 0x10000
RECURSIVE toUtf8(_)
toUtf8(str) ==
    IF str = <<>> THEN <<>>
    ELSE LET c == Head(str)
         IN  (IF c < 128 THEN <<c>>
              ELSE IF c < 2048 THEN <<192 + (c \div 64), 128 + (c % 64)>>
              ELSE <<224 + (c \div 4096), 128 + ((c \div 64) % 64), 128 + (c % 64)>>)
             \o toUtf8(Tail(str))

\* QString::fromUtf8: a byte that starts no well-formed sequence decodes to
\* U+FFFD
RECURSIVE fromUtf8(_)
fromUtf8(bytes) ==
    LET cont(k) == k <= Len(bytes) /\ bytes[k] >= 128 /\ bytes[k] < 192
        b == bytes[1]
    IN  IF bytes = <<>> THEN <<>>
        ELSE IF b < 128 THEN <<b>> \o fromUtf8(Tail(bytes))
        ELSE IF b >= 194 /\ b < 224 /\ cont(2)
             THEN <<(b - 192) * 64 + (bytes[2] - 128)>>
                  \o fromUtf8(SubSeq(bytes, 3, Len(bytes)))
        ELSE IF b >= 224 /\ b < 240 /\ cont(2) /\ cont(3)
                /\ (b - 224) * 4096 + (bytes[2] - 128) * 64 >= 2048
             THEN <<(b - 224) * 4096 + (bytes[2] - 128) * 64 + (bytes[3] - 128)>>
                  \o fromUtf8(SubSeq(bytes, 4, Len(bytes)))
        ELSE <<65533>> \o fromUtf8(Tail(bytes))

\* qToBigEndian(src, dest) for a src of width bytes: the bytes it stores at dest
RECURSIVE qToBigEndian(_, _)
qToBigEndian(src, width) ==
    IF width = 0 THEN <<>>
    ELSE Append(qToBigEndian(src \div 256, width - 1), src % 256)

\* qFromBigEndian<T>(data.data() + off) for a T of width bytes
RECURSIVE qFromBigEndian(_, _, _)
qFromBigEndian(data, off, width) ==
    IF width = 0 THEN 0
    ELSE data[off + width] + 256 * qFromBigEndian(data, off, width - 1)

\* a store of bytes at data.data() + off: the array afterwards, the bytes that
\* fall past its end left out
Store(data, off, bytes) ==
    [i \in 1..Len(data) |-> IF i > off /\ i <= off + Len(bytes) THEN bytes[i - off]
                            ELSE data[i]]

\* QByteArray::replace(pos, len, after): in place when the sizes agree and the
\* range lies in the array; otherwise remove(pos, len) and insert(pos, after),
\* which extends the array with spaces up to pos
replace(data, pos, len, after) ==
    IF len = Len(after) /\ pos + len <= Len(data) THEN Store(data, pos, after)
    ELSE LET removed == IF len <= 0 \/ pos >= Len(data) THEN data
                        ELSE IF len >= Len(data) - pos THEN SubSeq(data, 1, pos)
                        ELSE SubSeq(data, 1, pos) \o SubSeq(data, pos + len + 1, Len(data))
         IN  IF after = <<>> THEN removed
             ELSE IF pos > Len(removed)
                  THEN removed \o [i \in 1..(pos - Len(removed)) |-> 32] \o after
                  ELSE SubSeq(removed, 1, pos) \o after
                       \o SubSeq(removed, pos + 1, Len(removed))

\* connect(): the message handed to association->write.  sizeWidth is the width
\* of the type of QByteArray::size() (4: int, 8: qsizetype), which is the width
\* qToBigEndian stores for the two lengths; overflow says that one of these
\* stores runs past the end of data
connect(ch, sizeWidth) ==
    LET utf8Label == toUtf8(ch.label)
        utf8Protocol == toUtf8(ch.protocol)
        sz0 == 12 + Len(utf8Label)
        protoOff == ((sz0 + 3) \div 4) * 4
        sz == sz0 + ((Len(utf8Protocol) + 3) \div 4) * 4
        d0 == [i \in 1..sz |-> 0]
        d1 == Store(d0, 0, <<DCEP_DATA_CHANNEL_OPEN>>)
        d2 == Store(d1, 1, <<ch.channelType>>)
        d3 == Store(d2, 2, qToBigEndian(ch.priority, 2))
        d4 == Store(d3, 4, qToBigEndian(ch.reliability, 4))
        d5 == Store(d4, 8, qToBigEndian(Len(utf8Label), sizeWidth))
        d6 == Store(d5, 10, qToBigEndian(Len(utf8Protocol), sizeWidth))
        d7 == replace(d6, 12, Len(utf8Label), utf8Label)
    IN  [data |-> replace(d7, protoOff, Len(utf8Protocol), utf8Protocol),
         overflow |-> 10 + sizeWidth > sz]

\* the constructor: quint8 channelType, quint32 reliability, quint16 priority
\* (the reliabilities considered are below 2^31, so that the conversion to
\* quint32 changes nothing)
WebRTCDataChannel(channelType, reliability, priority, label, protocol) ==
    [ok |-> TRUE, channelType |-> channelType % 256, reliability |-> reliability,
     priority |-> priority % 65536, label |-> label, protocol |-> protocol]

NoChannelOpen ==
    [ok |-> FALSE, channelType |-> 0, reliability |-> 0, priority |-> 0,
     label |-> <<>>, protocol |-> <<>>]

\* fromChannelOpen(assoc, data): the channel created, NoChannelOpen for {}
fromChannelOpen(data) ==
    IF Len(data) < 12 THEN NoChannelOpen
    ELSE LET channelType == data[2]
             priority == qFromBigEndian(data, 2, 2)
             reliability == qFromBigEndian(data, 4, 4)
             labelLength == qFromBigEndian(data, 8, 2)
             protoOff == (12 + labelLength) + (labelLength % 4)
             protocolLength == qFromBigEndian(data, 10, 2)
         IN  IF protoOff + protocolLength > Len(data) THEN NoChannelOpen
             ELSE WebRTCDataChannel(
                      channelType, priority, reliability,
                      fromUtf8(SubSeq(data, 13, 12 + labelLength)),
                      fromUtf8(SubSeq(data, protoOff + 1, protoOff + protocolLength)))

\* labels and protocols of 0 to 5 UTF-8 bytes, one of them with a two-byte
\* character ("é")
OpenStrings ==
    {<<>>, <<99>>, <<99, 104>>, <<99, 104, 97>>, <<99, 104, 97, 116>>,
     <<99, 104, 97, 116, 115>>, <<233, 99>>}

\* a message laid out as fromChannelOpen reads it, with 16-bit lengths
Layout(ch) ==
    LET l == toUtf8(ch.label)
        q == toUtf8(ch.protocol)
    IN  <<DCEP_DATA_CHANNEL_OPEN, ch.channelType>> \o qToBigEndian(ch.priority, 2)
        \o qToBigEndian(ch.reliability, 4) \o qToBigEndian(Len(l), 2)
        \o qToBigEndian(Len(q), 2) \o l \o [i \in 1..(Len(l) % 4) |-> 0] \o q

\* p_in: the channel connect() is called on and the build's sizeWidth; p_out:
\* the message built (crashed: a store past the end of the array ended the
\* program), the channel parsed from it, and a message raw received from a peer
\* with the result of parsing it
OpenInit ==
    /\ EngineInit
    /\ p_in \in [channelType : {0, 130}, priority : {256, 65535},
                 reliability : {256, 70000}, label : OpenStrings,
                 protocol : OpenStrings \ {<<233, 99>>}, sizeWidth : {4, 8}]
    /\ p_out = [stage |-> "new", data |-> <<>>, crashed |-> FALSE,
                channel |-> NoChannelOpen, raw |-> <<>>, rawChannel |-> NoChannelOpen]

OpenConnect ==
    /\ p_out.stage = "new"
    /\ LET m == connect(p_in, p_in.sizeWidth)
       IN  \E crashed \in (IF m.overflow THEN BOOLEAN ELSE {FALSE}) :
               p_out' = [p_out EXCEPT !.stage = "opening", !.data = m.data,
                                      !.crashed = crashed]
    /\ UNCHANGED <<p_in, engineVars>>

\* the peer's association hands the message to fromChannelOpen
OpenParse ==
    /\ p_out.stage = "opening" /\ ~p_out.crashed
    /\ p_out' = [p_out EXCEPT !.stage = "parsed", !.channel = fromChannelOpen(p_out.data)]
    /\ UNCHANGED <<p_in, engineVars>>

\* a peer's message, whole or cut short, is parsed
OpenParseRaw ==
    /\ p_out.stage = "new"
    /\ \E k \in 0..Len(Layout(p_in)) :
           LET raw == SubSeq(Layout(p_in), 1, k)
           IN  p_out' = [p_out EXCEPT !.stage = "raw", !.raw = raw,
                                      !.rawChannel = fromChannelOpen(raw)]
    /\ UNCHANGED <<p_in, engineVars>>

OpenNext == OpenConnect \/ OpenParse \/ OpenParseRaw

OpenSpec == OpenInit /\ [][OpenNext]_vars

\* C40: DATA_CHANNEL_OPEN round trip: for every channelType, priority,
\* reliability, label and protocol (labels and protocols of every length mod 4)
\* fromChannelOpen applied to the message connect() builds yields a channel
\* with the same channelType, priority, reliability, label and protocol; and
\* fromChannelOpen returns no channel for a message shorter than 12 bytes or
\* whose label and protocol lengths run past its end.
C40_OpenRoundTrip ==
    /\ p_out.stage = "parsed" =>
           /\ p_out.channel.ok
           /\ p_out.channel.channelType = p_in.channelType
           /\ p_out.channel.priority = p_in.priority
           /\ p_out.channel.reliability = p_in.reliability
           /\ p_out.channel.label = p_in.label
           /\ p_out.channel.protocol = p_in.protocol
    /\ (p_out.stage = "raw"
        /\ (Len(p_out.raw) < 12
            \/ 12 + qFromBigEndian(p_out.raw, 8, 2) + qFromBigEndian(p_out.raw, 10, 2)
                   > Len(p_out.raw))) => ~p_out.rawChannel.ok

====
